---- MODULE Spec2Model ----
(***************************************************************************)
(* A state-machine model of the fastapi-starter backend: the users and     *)
(* posts tables, the post handlers (the flat controllers of                *)
(* app/api/v1/posts.py and the layered router/service of app/posts), the   *)
(* generic paginator of app/utils/pagination.py, the account handlers of   *)
(* app/api/v1/auth.py with the two AuthService.authenticate_user, the      *)
(* tokens and the gates of a protected route (app/core/auth.py,            *)
(* app/auth/dependencies.py), the session scope get_db, the cache          *)
(* (app/core/redis.py), the decorators of app/core/decorators.py, the      *)
(* soft-delete mixin of app/models/base.py and TaskNotFoundError of        *)
(* app/core/error.py.                                                      *)
(*                                                                         *)
(* In the worlds of the handlers requests run one at a time: the client    *)
(* sends a request, one handler action runs it whole, from its first query *)
(* to its commit, and the response is delivered before the next request is *)
(* sent.  A response is represented by the outcome of the handler body:    *)
(* 200 with the rows it returns, or the status of the HTTP error it raises *)
(* (500 for any other exception); the rendering of a row into a response   *)
(* schema is not modelled, and the wrapping of an error into the error     *)
(* envelope is modelled on its own, in the world of the decorators.  In    *)
(* the worlds of get_db, of concurrent create_post and of paginate the     *)
(* coroutines are interleaved at their awaits.                             *)
(***************************************************************************)
EXTENDS Integers, Sequences, FiniteSets, TLC

VARIABLES
    users,      \* the users table: a set of user rows
    posts,      \* the posts table: a set of post rows
    nextPostId, \* the next fresh post identifier (uuid4 never repeats)
    nextUserId, \* the next fresh user identifier
    now,        \* the clock read by datetime.utcnow()
    req,        \* the request in flight, NoReq when the client is idle
    resp,       \* the response to req, NoResp until the handler has run
    tasks,      \* the coroutines in progress: each one's position and locals
    sessions,   \* the database sessions created so far, in order of creation
    cache,      \* the cache server: whether it answers, and what it stores
    heap        \* the Python objects in memory that no table row stands for

vars == <<users, posts, nextPostId, nextUserId, now, req, resp, tasks,
          sessions, cache, heap>>

-----------------------------------------------------------------------------
(* Values *)

\* Python None / SQL NULL, for a nullable text or boolean value, for a
\* nullable timestamp and for an absent identifier.
NULL == "NULL"
NoTime == -1
NoId == 0
\* Boolean values that may also be NULL or not supplied.
TT == "true"
FF == "false"
Bools == {TT, FF}
\* A field the request body did not supply (dropped by exclude_unset=True).
UNSET == "UNSET"

\* Bounds of the model.
MaxPostIds == 3
MaxTime == 2
MaxUserIds == 3
MaxPage == 3
MaxRows == 3

Variants == {"flat", "layered"}

Slugs == {"a", "b"}
PostIds == 1..MaxPostIds

\* AuthService.get_password_hash / verify_password (passlib bcrypt): the hash
\* is a value other than the password, and verification recomputes it.
get_password_hash(password) == <<"bcrypt", password>>
verify_password(plain, hashed) == hashed = get_password_hash(plain)

\* The accounts present when posts are handled.  No handler sets
\* is_superuser, so the superuser is an account flagged out of band.
SeedUsers ==
    { [id |-> 1, email |-> "e1", username |-> "n1", hashed_password |-> get_password_hash("p1"),
       is_active |-> TT, is_superuser |-> TRUE, last_login |-> NoTime],
      [id |-> 2, email |-> "e2", username |-> "n2", hashed_password |-> get_password_hash("p2"),
       is_active |-> TT, is_superuser |-> FALSE, last_login |-> NoTime],
      [id |-> 3, email |-> "e3", username |-> "n3", hashed_password |-> get_password_hash("p1"),
       is_active |-> TT, is_superuser |-> FALSE, last_login |-> NoTime] }

\* Python truthiness of a nullable boolean column.
Truthy(b) == b = TT

\* Status codes raised by the handlers.
HTTP_200 == "200"
HTTP_400 == "400"
HTTP_401 == "401"
HTTP_403 == "403"
HTTP_404 == "404"
HTTP_409 == "409"
HTTP_422 == "422"
HTTP_500 == "500"

\* A request: the handler it is for and the handler's arguments.  Fields a
\* handler does not read keep their value of NoReq.
NoReq ==
    [op |-> "none", variant |-> NULL, caller |-> NoId, pid |-> NoId,
     slug |-> NULL, pub |-> NULL, title |-> UNSET, content |-> UNSET,
     summary |-> UNSET, superuser |-> UNSET, fault |-> NULL,
     task_id |-> NULL, details |-> NULL, search |-> <<>>, search_fields |-> <<>>, page |-> 0, size |-> 0, fpub |-> NULL,
     fauthor |-> NoId, sort_by |-> NULL, sort_order |-> NULL,
     email |-> NULL, username |-> NULL, password |-> NULL, active |-> NULL,
     token |-> <<>>, required |-> <<>>,
     prefix |-> NULL, args |-> <<>>, kwargs |-> <<>>,
     ckey |-> NULL, cvalue |-> <<>>, timeout |-> NoTime, use_json |-> NULL,
     pattern |-> NULL, amount |-> 0,
     wrap |-> NULL, error_code |-> NULL, inner_code |-> NULL,
     raises |-> <<>>]

\* A response: its status, the row it carries, or the page of items with
\* its metadata, the token it issues and the number of database queries
\* the request issued.
NoResp ==
    [status |-> NULL, rows |-> {}, items |-> <<>>, meta |-> <<>>,
     token |-> <<>>, nq |-> 0, key |-> <<>>, value |-> <<>>,
     raised |-> NULL, detail |-> <<>>]

\* The cache server: it answers, and stores nothing.
CacheKeys == {"k1", "k2"}
NoEntry == <<>>
NoCache == [up |-> TRUE, store |-> [k \in CacheKeys |-> NoEntry]]

\* No object in memory.
NoHeap == <<>>

Responded == resp.status # NULL

-----------------------------------------------------------------------------
(* Posts: queries *)

\* select(Post).where(Post.slug == slug) ... scalar_one_or_none()
SlugExists(tbl, slug) == \E p \in tbl : p.slug = slug

\* select(Post).where(Post.id == post_id)
PostById(tbl, pid) == {p \in tbl : p.id = pid}

\* select(Post).where(Post.slug == slug, Post.id != post_id)
\* (a faulty lookup that finds no row, then the lookup)
SlugUsedByOtherNever(tbl, slug, pid) == FALSE
SlugUsedByOther(tbl, slug, pid) ==
    \E p \in tbl : p.slug = slug /\ p.id # pid

\* post.author_id != current_user.id and not current_user.is_superuser
\* (a faulty test with "or", then the test)
NotPermittedOr(post, user) ==
    post.author_id # user.id \/ ~ user.is_superuser
NotPermitted(post, user) ==
    post.author_id # user.id /\ ~ user.is_superuser

\* PostService.check_post_access
\* (a faulty rule that forgets the superuser, then the rule)
check_post_access_no_superuser(post, user) ==
    IF Truthy(post.is_published) THEN TRUE
    ELSE IF post.author_id = user.id THEN TRUE
    ELSE FALSE
check_post_access(post, user) ==
    IF Truthy(post.is_published) THEN TRUE
    ELSE IF post.author_id = user.id \/ user.is_superuser THEN TRUE
    ELSE FALSE

\* The slug-conflict status: SlugAlreadyExistsError is 409 in the layered
\* service, the flat controller raises HTTPException(400).
SlugConflictStatus(v) == IF v = "layered" THEN HTTP_409 ELSE HTTP_400

\* The table's constraints, checked by the database at commit:
\* title, content and slug NOT NULL, slug UNIQUE.
\* (A table without the unique index on slug, then the constraints.)
NotNullHolds(tbl) ==
    \A p \in tbl : p.title # NULL /\ p.content # NULL /\ p.slug # NULL
ConstraintsHold(tbl) ==
    /\ \A p \in tbl : p.title # NULL /\ p.content # NULL /\ p.slug # NULL
    /\ \A p, q \in tbl : p.id # q.id => p.slug # q.slug

-----------------------------------------------------------------------------
(* Posts: handlers *)

\* create_post: the row it inserts.  The texts of a new post are the same
\* for every creation; updated_at has no default and starts empty.
NewPost(pid, slug, pub, author, t) ==
    [id |-> pid, title |-> "t0", content |-> "c0", summary |-> NULL,
     slug |-> slug, is_published |-> pub,
     published_at |-> IF Truthy(pub) THEN t ELSE NoTime,
     author_id |-> author.id, created_at |-> t, updated_at |-> NoTime]

CreatePost(v, user, slug, pub) ==
    /\ nextPostId <= MaxPostIds
    /\ IF SlugExists(posts, slug)
       THEN /\ resp' = [NoResp EXCEPT !.status = SlugConflictStatus(v), !.nq = 1]
            /\ UNCHANGED <<posts, nextPostId>>
       ELSE LET row == NewPost(nextPostId, slug, pub, user, now)
            IN  IF ConstraintsHold(posts \cup {row})
                THEN /\ posts' = posts \cup {row}
                     /\ nextPostId' = nextPostId + 1
                     /\ resp' = [NoResp EXCEPT !.status = HTTP_200,
                                     !.rows = {row}, !.nq = 2]
                ELSE /\ resp' = [NoResp EXCEPT !.status = HTTP_500, !.nq = 2]
                     /\ UNCHANGED <<posts, nextPostId>>
    /\ UNCHANGED <<users, nextUserId, now, req,
                   tasks, sessions, cache, heap>>

\* PostUpdate: every field is optional; a field left out is UNSET.
PostUpdate(titleIn, contentIn, summaryIn, pubIn, slugIn) ==
    [title |-> titleIn, content |-> contentIn, summary |-> summaryIn,
     is_published |-> pubIn, slug |-> slugIn]

\* update_post: setattr for every supplied field ...
\* (An update that writes the fields left out as nulls, then the update.)
ApplyFieldsUnsetAsNull(post, post_data) ==
    LET Given(x) == IF x = UNSET THEN NULL ELSE x
    IN  [post EXCEPT !.title = Given(post_data.title),
                     !.content = Given(post_data.content),
                     !.summary = Given(post_data.summary),
                     !.slug = Given(post_data.slug),
                     !.is_published = Given(post_data.is_published)]
ApplyFields(post, post_data) ==
    [post EXCEPT !.title = IF post_data.title = UNSET THEN @
                           ELSE post_data.title,
                 !.content = IF post_data.content = UNSET THEN @
                             ELSE post_data.content,
                 !.summary = IF post_data.summary = UNSET THEN @
                             ELSE post_data.summary,
                 !.slug = IF post_data.slug = UNSET THEN @ ELSE post_data.slug,
                 !.is_published = IF post_data.is_published = UNSET THEN @
                                  ELSE post_data.is_published]

\* BaseModel.updated_at has onupdate=func.now(): the UPDATE statement the
\* flush emits for a row with a changed column stamps it.
OnUpdate(old, row, t) ==
    IF row # old THEN [row EXCEPT !.updated_at = t] ELSE row

\* ... then the publish rule, when is_published was supplied.
\* (A faulty rule that stamps a published post again, then the rule.)
PublishRuleAlwaysStamp(post, pubIn, t) ==
    IF pubIn # UNSET
    THEN IF Truthy(post.is_published)
         THEN [post EXCEPT !.published_at = t]
         ELSE [post EXCEPT !.published_at = NoTime]
    ELSE post
PublishRule(post, pubIn, t) ==
    IF pubIn # UNSET
    THEN IF Truthy(post.is_published) /\ post.published_at = NoTime
         THEN [post EXCEPT !.published_at = t]
         ELSE IF ~ Truthy(post.is_published)
              THEN [post EXCEPT !.published_at = NoTime]
              ELSE post
    ELSE post

UpdatePost(v, user, pid, post_data) ==
    /\ LET found == PostById(posts, pid)
           slugIn == post_data.slug
           pubIn == post_data.is_published
       IN  IF found = {}
           THEN /\ resp' = [NoResp EXCEPT !.status = HTTP_404, !.nq = 1]
                /\ UNCHANGED posts
           ELSE LET post == CHOOSE p \in found : TRUE
                IN  IF NotPermitted(post, user)
                    THEN /\ resp' = [NoResp EXCEPT !.status = HTTP_403, !.nq = 1]
                         /\ UNCHANGED posts
                    ELSE IF /\ slugIn \notin {UNSET, NULL}
                            /\ slugIn # post.slug
                            /\ SlugUsedByOther(posts, slugIn, pid)
                         THEN /\ resp' = [NoResp EXCEPT
                                    !.status = SlugConflictStatus(v), !.nq = 2]
                              /\ UNCHANGED posts
                         ELSE LET row == OnUpdate(post, PublishRule(
                                    ApplyFields(post, post_data), pubIn, now),
                                    now)
                                  tbl == (posts \ {post}) \cup {row}
                              IN  IF ConstraintsHold(tbl)
                                  THEN /\ posts' = tbl
                                       /\ resp' = [NoResp EXCEPT
                                             !.status = HTTP_200,
                                             !.rows = {row}, !.nq = 3]
                                  ELSE /\ resp' = [NoResp EXCEPT
                                             !.status = HTTP_500, !.nq = 3]
                                       /\ UNCHANGED posts
    /\ UNCHANGED <<users, nextPostId, nextUserId, now, req,
                   tasks, sessions, cache, heap>>

\* delete_post: lookup, permission, db.delete and commit.
\* (A delete that answers without removing the row, then the delete.)
DeletePostKeepsRow(v, user, pid) ==
    /\ LET found == PostById(posts, pid)
       IN  IF found = {}
           THEN /\ resp' = [NoResp EXCEPT !.status = HTTP_404, !.nq = 1]
                /\ UNCHANGED posts
           ELSE LET post == CHOOSE p \in found : TRUE
                IN  IF NotPermitted(post, user)
                    THEN /\ resp' = [NoResp EXCEPT !.status = HTTP_403, !.nq = 1]
                         /\ UNCHANGED posts
                    ELSE /\ posts' = posts
                         /\ resp' = [NoResp EXCEPT !.status = HTTP_200, !.nq = 2]
    /\ UNCHANGED <<users, nextPostId, nextUserId, now, req,
                   tasks, sessions, cache, heap>>
DeletePost(v, user, pid) ==
    /\ LET found == PostById(posts, pid)
       IN  IF found = {}
           THEN /\ resp' = [NoResp EXCEPT !.status = HTTP_404, !.nq = 1]
                /\ UNCHANGED posts
           ELSE LET post == CHOOSE p \in found : TRUE
                IN  IF NotPermitted(post, user)
                    THEN /\ resp' = [NoResp EXCEPT !.status = HTTP_403, !.nq = 1]
                         /\ UNCHANGED posts
                    ELSE /\ posts' = posts \ {post}
                         /\ resp' = [NoResp EXCEPT !.status = HTTP_200, !.nq = 2]
    /\ UNCHANGED <<users, nextPostId, nextUserId, now, req,
                   tasks, sessions, cache, heap>>

GetPost(v, user, pid) ==
    /\ LET found == PostById(posts, pid)
       IN  IF found = {}
           THEN resp' = [NoResp EXCEPT !.status = HTTP_404, !.nq = 1]
           ELSE LET post == CHOOSE p \in found : TRUE
                IN  IF ~ check_post_access(post, user)
                    THEN resp' = [NoResp EXCEPT !.status = HTTP_403, !.nq = 1]
                    ELSE resp' = [NoResp EXCEPT !.status = HTTP_200,
                                      !.rows = {post}, !.nq = 1]
    /\ UNCHANGED <<users, posts, nextPostId, nextUserId, now, req,
                   tasks, sessions, cache, heap>>

-----------------------------------------------------------------------------
(* The client, the clock and the dispatch of a request to its handler *)

\* The callers that pass get_current_active_user.
ActiveUsers == {u \in users : Truthy(u.is_active)}
Caller == CHOOSE u \in users : u.id = req.caller

\* The client sends one of the requests rs.
Send(rs) ==
    /\ req = NoReq
    /\ \E r \in rs : req' = r
    /\ UNCHANGED <<users, posts, nextPostId, nextUserId, now, resp,
                   tasks, sessions, cache, heap>>

\* The response is delivered and the client is idle again.
Deliver ==
    /\ Responded
    /\ req' = NoReq
    /\ resp' = NoResp
    /\ UNCHANGED <<users, posts, nextPostId, nextUserId, now,
                   tasks, sessions, cache, heap>>

\* Time passes.
Tick ==
    /\ now < MaxTime
    /\ now' = now + 1
    /\ UNCHANGED <<users, posts, nextPostId, nextUserId, req, resp,
                   tasks, sessions, cache, heap>>

Pending(op) == req.op = op /\ ~ Responded

CreatePostRequest ==
    Pending("create_post") /\ CreatePost(req.variant, Caller, req.slug, req.pub)
UpdatePostRequest ==
    Pending("update_post")
        /\ UpdatePost(req.variant, Caller, req.pid,
                      PostUpdate(req.title, req.content, req.summary,
                                 req.pub, req.slug))
DeletePostRequest ==
    Pending("delete_post") /\ DeletePost(req.variant, Caller, req.pid)
GetPostRequest ==
    Pending("get_post") /\ GetPost(req.variant, Caller, req.pid)

\* PostUpdate.slug : a string of 1..200 characters, null, or not supplied.
SlugInputs == Slugs \cup {NULL, UNSET}
\* PostUpdate.is_published : a boolean, null, or not supplied.
PubInputs == Bools \cup {NULL, UNSET}

\* The post requests of the callers cs.
PostRequests(cs) ==
    {[NoReq EXCEPT !.op = "create_post", !.variant = v, !.caller = c,
          !.slug = s, !.pub = b] :
        v \in Variants, c \in cs, s \in Slugs, b \in Bools}
    \cup {[NoReq EXCEPT !.op = "update_post", !.variant = v, !.caller = c[1],
               !.pid = c[2], !.slug = s, !.pub = b] :
            v \in Variants, c \in cs \X PostIds, s \in SlugInputs, b \in PubInputs}
    \cup {[NoReq EXCEPT !.op = o, !.variant = v, !.caller = c, !.pid = p] :
            o \in {"delete_post", "get_post"}, v \in Variants, c \in cs,
            p \in PostIds}

-----------------------------------------------------------------------------
(* Posts handled for three accounts, one of them a superuser *)

InitPosts ==
    /\ users = SeedUsers
    /\ posts = {}
    /\ nextPostId = 1
    /\ nextUserId = MaxUserIds + 1
    /\ now = 0
    /\ req = NoReq
    /\ resp = NoResp
    /\ tasks = <<>>
    /\ sessions = <<>>
    /\ cache = NoCache
    /\ heap = NoHeap

SendPostRequest == Send(PostRequests({u.id : u \in ActiveUsers}))

NextPosts ==
    \/ SendPostRequest
    \/ CreatePostRequest
    \/ UpdatePostRequest
    \/ DeletePostRequest
    \/ GetPostRequest
    \/ Deliver

Spec == InitPosts /\ [][NextPosts]_vars

-----------------------------------------------------------------------------
(* Posts created and updated by one author while time passes *)

InitPublish ==
    /\ users = {u \in SeedUsers : u.id = 2}
    /\ posts = {}
    /\ nextPostId = 1
    /\ nextUserId = MaxUserIds + 1
    /\ now = 0
    /\ req = NoReq
    /\ resp = NoResp
    /\ tasks = <<>>
    /\ sessions = <<>>
    /\ cache = NoCache
    /\ heap = NoHeap

SendPublishRequest ==
    Send({r \in PostRequests({u.id : u \in ActiveUsers}) :
            r.op \in {"create_post", "update_post"}})

NextPublish ==
    \/ SendPublishRequest
    \/ CreatePostRequest
    \/ UpdatePostRequest
    \/ Deliver
    \/ Tick

SpecPublish == InitPublish /\ [][NextPublish]_vars

-----------------------------------------------------------------------------
(* Pagination (app/utils/pagination.py) and the listing handlers *)

\* Paginator.__init__: size must be between 1 and 100.
MAX_SIZE == 100

\* filters dictionary: a key is present when its value is not null.
NoFilters == [fpub |-> NULL, fauthor |-> NoId]

\* Paginator.get_total_count / get_items: one equality condition per key.
Matches(p, f) ==
    /\ f.fpub # NULL => p.is_published = f.fpub
    /\ f.fauthor # NoId => p.author_id = f.fauthor

Matching(tbl, f) == {p \in tbl : Matches(p, f)}

get_total_count(tbl, f) == Cardinality(Matching(tbl, f))

\* Columns of Post that the model sorts by; any other name is no attribute.
SlugSeq == <<"a", "b", "c", "d", "e">>
SlugRank(slug) == CHOOSE i \in 1..Len(SlugSeq) : SlugSeq[i] = slug
SortColumns == {"created_at", "slug"}
SortKey(p, col) == IF col = "slug" THEN SlugRank(p.slug) ELSE p.created_at

Perms(S) ==
    {f \in [1..Cardinality(S) -> S] :
        \A i, j \in 1..Cardinality(S) : i # j => f[i] # f[j]}

IsOrdered(s, col, dir) ==
    \A i \in 1..(Len(s) - 1) :
        IF dir = "desc"
        THEN SortKey(s[i], col) >= SortKey(s[i + 1], col)
        ELSE SortKey(s[i], col) <= SortKey(s[i + 1], col)

\* get_items, ORDER BY: by sort_by when it names a column (descending only
\* for "desc"), else by created_at descending.  Rows with equal keys come in
\* any order.
OrderBy(S, sort_by, sort_order) ==
    IF sort_by # NULL /\ sort_by \in SortColumns
    THEN {s \in Perms(S) :
            IsOrdered(s, sort_by, IF sort_order = "desc" THEN "desc" ELSE "asc")}
    ELSE {s \in Perms(S) : IsOrdered(s, "created_at", "desc")}

Min(a, b) == IF a < b THEN a ELSE b

\* get_items, OFFSET (page - 1) * size LIMIT size.
get_items(ord, page, size) ==
    LET offset == (page - 1) * size
    IN  SubSeq(ord, offset + 1, Min(offset + size, Len(ord)))

\* paginate: pages = ceil(total / size) if total > 0 else 0
\* (a faulty count that rounds down, then the count)
PagesFloor(total, size) == total \div size
Pages(total, size) ==
    IF total > 0 THEN (total + size - 1) \div size ELSE 0

PaginationMeta(page, size, total) ==
    [page |-> page, size |-> size, total |-> total,
     pages |-> Pages(total, size),
     has_next |-> page < Pages(total, size),
     has_prev |-> page > 1]

\* Paginator.__init__ validation
\* (a faulty validation without the upper limit, then the validation)
InvalidPagingNoUpper(page, size) == page < 1 \/ size < 1
InvalidPaging(page, size) == page < 1 \/ size < 1 \/ size > MAX_SIZE

\* An optional argument: <<>> is None, <<x>> is the value x.  A text is the
\* sequence of its characters.
Falsy(opt) == opt = <<>> \/ opt[1] = <<>>

\* column.ilike("%term%"): the term occurs in the text, whatever the case.
Lower(ch) == IF ch = "T" THEN "t" ELSE ch
ilike(text, term) ==
    \E i \in 0..(Len(text) - Len(term)) :
        \A j \in 1..Len(term) : Lower(text[i + j]) = Lower(term[j])

\* hasattr(model, field), for the Post model.
SearchColumns == {"title", "content", "summary"}

\* FilterBuilder.build_search_filters: one condition, the disjunction over
\* the fields the model has, or none.
build_search_filters(search_term, search_fields) ==
    IF Falsy(search_term) \/ Falsy(search_fields) THEN <<>>
    ELSE LET fields == {search_fields[1][k] : k \in 1..Len(search_fields[1])}
                           \cap SearchColumns
         IN  IF fields = {} THEN <<>>
             ELSE <<[fields |-> fields, term |-> search_term[1]]>>

\* `if search_conditions: pass`: the conditions built are left out of the
\* filters the Paginator gets.
\* (A function that adds them to the queries, then the function.)
SearchApplied(tbl, search_conditions) ==
    {p \in tbl : \A k \in 1..Len(search_conditions) :
        \E c \in search_conditions[k].fields :
            ilike(p[c], search_conditions[k].term)}
SearchDropped(tbl, search_conditions) == tbl

\* get_paginated_results: the possible results, one per admissible row order;
\* nq counts the queries executed.
get_paginated_results(tbl, page, size, f, sort_by, sort_order, search_term, search_fields) ==
    LET search_conditions ==
            IF ~ Falsy(search_term) /\ ~ Falsy(search_fields)
            THEN build_search_filters(search_term, search_fields)
            ELSE <<>>
        queried == SearchDropped(tbl, search_conditions)
    IN  IF InvalidPaging(page, size)
        THEN {[status |-> HTTP_422, items |-> <<>>, meta |-> <<>>, nq |-> 0]}
        ELSE {[status |-> HTTP_200,
               items |-> get_items(ord, page, size),
               meta |-> <<PaginationMeta(page, size,
                                         get_total_count(queried, f))>>,
               nq |-> 2] :
              ord \in OrderBy(Matching(queried, f), sort_by, sort_order)}

Respond(r) ==
    resp' = [NoResp EXCEPT !.status = r.status, !.items = r.items,
                           !.meta = r.meta, !.nq = r.nq]

PaginateCall ==
    /\ Pending("paginate")
    /\ \E r \in get_paginated_results(posts, req.page, req.size,
                    [fpub |-> req.fpub, fauthor |-> req.fauthor],
                    req.sort_by, req.sort_order,
                    req.search, req.search_fields) : Respond(r)
    /\ UNCHANGED <<users, posts, nextPostId, nextUserId, now, req,
                   tasks, sessions, cache, heap>>

\* PaginationMeta is a pydantic model: result["meta"]["total"] = n is an item
\* assignment, which the object does not support (TypeError).
MetaItemAssignable == FALSE

\* get_posts: the items of the page the caller may see, in page order.
filtered_items(items, user) ==
    LET F[i \in 0..Len(items)] ==
            IF i = 0 THEN <<>>
            ELSE IF check_post_access(items[i], user)
                 THEN Append(F[i - 1], items[i])
                 ELSE F[i - 1]
    IN  F[Len(items)]

\* The filters a handler hands to get_paginated_results: the layered
\* PostService.get_posts passes the dictionary it built, the flat handlers
\* build one and leave it out of the call.
PassedFilters(v, built) == IF v = "layered" THEN built ELSE NoFilters

DefaultSort(sort_by) == IF sort_by = NULL THEN "created_at" ELSE sort_by

\* search_fields=["title", "content", "summary"]
PostSearchFields == <<<<"title", "content", "summary">>>>

GetPosts(v, user, page, size, search, fpub, fauthor, sort_by, sort_order) ==
    /\ \E r \in get_paginated_results(posts, page, size,
                    PassedFilters(v, [fpub |-> fpub, fauthor |-> fauthor]),
                    DefaultSort(sort_by), sort_order,
                    search, PostSearchFields) :
          IF r.status # HTTP_200
          THEN Respond(r)
          ELSE IF ~ user.is_superuser
          THEN LET kept == filtered_items(r.items, user)
               IN  IF MetaItemAssignable
                   THEN Respond([r EXCEPT !.items = kept,
                                   !.meta = <<[r.meta[1] EXCEPT
                                                 !.total = Len(kept)]>>])
                   ELSE resp' = [NoResp EXCEPT !.status = HTTP_500,
                                               !.nq = r.nq]
          ELSE Respond(r)
    /\ UNCHANGED <<users, posts, nextPostId, nextUserId, now, req,
                   tasks, sessions, cache, heap>>

GetMyPosts(v, user, page, size, search, fpub, sort_by, sort_order) ==
    /\ \E r \in get_paginated_results(posts, page, size,
                    PassedFilters(v, [fpub |-> fpub, fauthor |-> user.id]),
                    DefaultSort(sort_by), sort_order,
                    search, PostSearchFields) : Respond(r)
    /\ UNCHANGED <<users, posts, nextPostId, nextUserId, now, req,
                   tasks, sessions, cache, heap>>

GetPostsRequest ==
    /\ Pending("get_posts")
    /\ GetPosts(req.variant, Caller, req.page, req.size, req.search,
                req.fpub, req.fauthor, req.sort_by, req.sort_order)

GetMyPostsRequest ==
    /\ Pending("get_my_posts")
    /\ GetMyPosts(req.variant, Caller, req.page, req.size, req.search,
                  req.fpub, req.sort_by, req.sort_order)

\* Stored posts the listings run over: up to MaxRows rows of two authors.
ListAuthors == {2, 3}
ListTimes == {0, 1}
RowChoices ==
    {[present |-> TRUE, pub |-> pub, author |-> a, t |-> t] :
        pub \in Bools, a \in ListAuthors, t \in ListTimes}
    \cup {[present |-> FALSE, pub |-> FF, author |-> NoId, t |-> 0]}
TitleSeq == <<<<"t", "0">>, <<"t", "1">>, <<"t", "0">>, <<"t", "1">>,
              <<"t", "0">>>>
ListRow(i, c) ==
    [id |-> i, slug |-> SlugSeq[i], title |-> TitleSeq[i], content |-> <<"c">>,
     summary |-> <<>>, is_published |-> c.pub,
     published_at |-> IF c.pub = TT THEN c.t ELSE NoTime,
     author_id |-> c.author, created_at |-> c.t]
ListTables ==
    {{ListRow(i, f[i]) : i \in {j \in 1..MaxRows : f[j].present}} :
        f \in [1..MaxRows -> RowChoices]}

\* QueryParams: page >= 1, 1 <= size <= 100 reach the handlers; a direct
\* call of get_paginated_results takes any integers.
HandlerSizes == {1, 2}
CallSizes == {0, 1, 2, MAX_SIZE, MAX_SIZE + 1}
PubFilters == Bools \cup {NULL}
HandlerSorts == {<<NULL, "asc">>, <<"slug", "desc">>}
CallSorts == HandlerSorts \cup {<<"nosuch", "asc">>}

ListRequests(cs) ==
    {[NoReq EXCEPT !.op = "get_posts", !.variant = v, !.caller = c,
                   !.page = pg, !.size = sz, !.fpub = fp, !.fauthor = fa,
                   !.sort_by = so[1], !.sort_order = so[2]] :
        v \in Variants, c \in cs, pg \in 1..MaxPage, sz \in HandlerSizes,
        fp \in PubFilters, fa \in {NoId, 2}, so \in HandlerSorts}
    \cup
    {[NoReq EXCEPT !.op = "get_my_posts", !.variant = v, !.caller = c,
                   !.page = pg, !.size = sz, !.fpub = fp,
                   !.sort_by = so[1], !.sort_order = so[2]] :
        v \in Variants, c \in cs, pg \in 1..MaxPage, sz \in HandlerSizes,
        fp \in PubFilters, so \in HandlerSorts}

PaginateCalls ==
    {[NoReq EXCEPT !.op = "paginate",
                   !.page = pg, !.size = sz, !.fpub = fp, !.fauthor = fa,
                   !.sort_by = so[1], !.sort_order = so[2]] :
        pg \in 0..MaxPage, sz \in CallSizes,
        fp \in PubFilters, fa \in {NoId, 2}, so \in CallSorts}

InitList ==
    /\ users = SeedUsers
    /\ posts \in ListTables
    /\ nextPostId = MaxRows + 1
    /\ nextUserId = MaxUserIds + 1
    /\ now = 1
    /\ req = NoReq
    /\ resp = NoResp
    /\ tasks = <<>>
    /\ sessions = <<>>
    /\ cache = NoCache
    /\ heap = NoHeap

SendListRequest == Send(ListRequests({u.id : u \in ActiveUsers}))

NextList ==
    \/ SendListRequest
    \/ GetPostsRequest
    \/ GetMyPostsRequest
    \/ Deliver

SpecList == InitList /\ [][NextList]_vars

SendPaginateCall == Send(PaginateCalls)

NextPaginate ==
    \/ SendPaginateCall
    \/ PaginateCall
    \/ Deliver

SpecPaginate == InitList /\ [][NextPaginate]_vars

\* Direct calls of get_paginated_results with a search: no term, an empty
\* term, terms that occur in some titles, in every title, in none; no field
\* list, an empty one, fields the model has and one it has not.
Terms == {<<>>, <<<<>>>>, <<<<"1">>>>, <<<<"T">>>>, <<<<"z">>>>}
FieldLists == {<<>>, <<<<>>>>, PostSearchFields, <<<<"views">>>>}
SearchCalls ==
    {[NoReq EXCEPT !.op = "paginate",
                   !.page = pg, !.size = sz, !.fpub = fp,
                   !.sort_by = so[1], !.sort_order = so[2],
                   !.search = st, !.search_fields = sf] :
        pg \in 1..2, sz \in HandlerSizes, fp \in {NULL, TT},
        so \in HandlerSorts, st \in Terms, sf \in FieldLists}

\* The stored posts searched: those of one author.
InitSearch ==
    /\ users = SeedUsers
    /\ posts \in {tbl \in ListTables : \A p \in tbl : p.author_id = 2}
    /\ nextPostId = MaxRows + 1
    /\ nextUserId = MaxUserIds + 1
    /\ now = 1
    /\ req = NoReq
    /\ resp = NoResp
    /\ tasks = <<>>
    /\ sessions = <<>>
    /\ cache = NoCache
    /\ heap = NoHeap

SendSearchCall == Send(SearchCalls)

NextSearch ==
    \/ SendSearchCall
    \/ PaginateCall
    \/ Deliver

SpecSearch == InitSearch /\ [][NextSearch]_vars

-----------------------------------------------------------------------------
(* A client that reads a listing page by page, one call of
   get_paginated_results per page, while the stored posts stay as they are *)

\* The client before its first call.
NoScan ==
    [pc |-> "idle", size |-> 0, fpub |-> NULL, sort_by |-> NULL,
     sort_order |-> NULL, page |-> 0, pages |-> 0, seen |-> <<>>]
ScanFrame ==
    <<users, posts, nextPostId, nextUserId, now, req, resp, sessions, cache,
      heap>>

\* The client chooses the size, the filter and the sort of its pages.
ScanStart ==
    /\ tasks[1].pc = "idle"
    /\ \E sz \in HandlerSizes, fp \in {NULL, TT}, so \in HandlerSorts :
          tasks' = [tasks EXCEPT ![1] =
                       [NoScan EXCEPT !.pc = "fetch", !.size = sz, !.fpub = fp,
                                      !.sort_by = so[1], !.sort_order = so[2],
                                      !.page = 1]]
    /\ UNCHANGED ScanFrame

\* One call for the next page: its items are kept, and its metadata tell
\* how many pages there are.
ScanFetch ==
    /\ tasks[1].pc = "fetch"
    /\ \E r \in get_paginated_results(posts, tasks[1].page, tasks[1].size,
                    [fpub |-> tasks[1].fpub, fauthor |-> NoId],
                    tasks[1].sort_by, tasks[1].sort_order, <<>>, <<>>) :
          tasks' = [tasks EXCEPT
              ![1].seen = Append(@, r.items),
              ![1].pages = r.meta[1].pages,
              ![1].page = @ + 1,
              ![1].pc = IF tasks[1].page >= r.meta[1].pages
                        THEN "done" ELSE "fetch"]
    /\ UNCHANGED ScanFrame

\* The client starts over.
ScanAgain ==
    /\ tasks[1].pc = "done"
    /\ tasks' = [tasks EXCEPT ![1] = NoScan]
    /\ UNCHANGED ScanFrame

InitScan ==
    /\ users = SeedUsers
    /\ posts \in {tbl \in ListTables : \A p \in tbl : p.author_id = 2}
    /\ nextPostId = MaxRows + 1
    /\ nextUserId = MaxUserIds + 1
    /\ now = 1
    /\ req = NoReq
    /\ resp = NoResp
    /\ tasks = <<NoScan>>
    /\ sessions = <<>>
    /\ cache = NoCache
    /\ heap = NoHeap

NextScan ==
    \/ ScanStart
    \/ ScanFetch
    \/ ScanAgain

SpecScan == InitScan /\ [][NextScan]_vars

-----------------------------------------------------------------------------
(* Accounts: register, update profile, authenticate and login *)

RETURNED == "returned"

Emails == {"e1", "e2"}
Usernames == {"n1", "n2"}
Passwords == {"p1", "p2"}

EmailExists(tbl, email) == \E u \in tbl : u.email = email
\* (a faulty username lookup that finds no row, then the lookup)
UsernameExistsNever(tbl, username) == FALSE
UsernameExists(tbl, username) == \E u \in tbl : u.username = username

EmailUsedByOther(tbl, email, uid) ==
    \E u \in tbl : u.email = email /\ u.id # uid
UsernameUsedByOther(tbl, username, uid) ==
    \E u \in tbl : u.username = username /\ u.id # uid

\* users.email and users.username: unique=True, nullable=False
UserConstraintsHold(tbl) ==
    /\ \A u \in tbl : u.email # NULL /\ u.username # NULL
    /\ \A u, w \in tbl :
          u.id # w.id => (u.email # w.email /\ u.username # w.username)

NewUser(uid, email, username, password) ==
    [id |-> uid, email |-> email, username |-> username,
     hashed_password |-> get_password_hash(password),
     is_active |-> TT, is_superuser |-> FALSE, last_login |-> NoTime]

register(email, username, password) ==
    /\ nextUserId <= MaxUserIds
    /\ IF EmailExists(users, email)
       THEN /\ resp' = [NoResp EXCEPT !.status = HTTP_400, !.nq = 1]
            /\ UNCHANGED <<users, nextUserId>>
       ELSE IF UsernameExists(users, username)
       THEN /\ resp' = [NoResp EXCEPT !.status = HTTP_400, !.nq = 2]
            /\ UNCHANGED <<users, nextUserId>>
       ELSE LET row == NewUser(nextUserId, email, username, password)
                tbl == users \cup {row}
            IN  IF UserConstraintsHold(tbl)
                THEN /\ users' = tbl
                     /\ nextUserId' = nextUserId + 1
                     /\ resp' = [NoResp EXCEPT !.status = HTTP_200,
                                               !.rows = {row}, !.nq = 3]
                ELSE /\ resp' = [NoResp EXCEPT !.status = HTTP_500, !.nq = 3]
                     /\ UNCHANGED <<users, nextUserId>>
    /\ UNCHANGED <<posts, nextPostId, now, req,
                   tasks, sessions, cache, heap>>

\* UserUpdate declares email, username, full_name, is_active and
\* is_verified; a key of the request body it does not declare, is_superuser
\* among them, is ignored when the body is parsed.
\* (A schema that keeps the key, then the schema.)
UndeclaredKeyKept(value) == value
UndeclaredKey(value) == UNSET

\* The setattr loop over model_dump(exclude_unset=True).
ApplyUserFields(user, emailIn, usernameIn, activeIn, superIn) ==
    [user EXCEPT !.email = IF emailIn = UNSET THEN @ ELSE emailIn,
                 !.username = IF usernameIn = UNSET THEN @ ELSE usernameIn,
                 !.is_active = IF activeIn = UNSET THEN @ ELSE activeIn,
                 !.is_superuser = IF superIn = UNSET THEN @ ELSE superIn = TT]

update_current_user(user, emailIn, usernameIn, activeIn, superIn) ==
    /\ IF /\ emailIn \notin {UNSET, NULL}
          /\ emailIn # user.email
          /\ EmailUsedByOther(users, emailIn, user.id)
       THEN /\ resp' = [NoResp EXCEPT !.status = HTTP_400, !.nq = 1]
            /\ UNCHANGED users
       ELSE IF /\ usernameIn \notin {UNSET, NULL}
               /\ usernameIn # user.username
               /\ UsernameUsedByOther(users, usernameIn, user.id)
       THEN /\ resp' = [NoResp EXCEPT !.status = HTTP_400, !.nq = 2]
            /\ UNCHANGED users
       ELSE LET row == ApplyUserFields(user, emailIn, usernameIn, activeIn,
                                       superIn)
                tbl == (users \ {user}) \cup {row}
            IN  IF UserConstraintsHold(tbl)
                THEN /\ users' = tbl
                     /\ resp' = [NoResp EXCEPT !.status = HTTP_200,
                                               !.rows = {row}, !.nq = 3]
                ELSE /\ resp' = [NoResp EXCEPT !.status = HTTP_500, !.nq = 3]
                     /\ UNCHANGED users
    /\ UNCHANGED <<posts, nextPostId, nextUserId, now, req,
                   tasks, sessions, cache, heap>>

\* The WHERE clause of authenticate_user.  core/auth.py filters on
\* User.is_active == True, a column comparison; auth/service.py writes
\* User.is_active is True, a Python identity test of the column object with
\* True, which is False for every row.
ActiveClause(v, u) == IF v = "layered" THEN FALSE ELSE u.is_active = TT

\* authenticate_user: the user found, stamped with last_login, or nothing.
\* (A lookup that does not verify the password, then the lookup.)
AuthCandidatesAnyPassword(v, email, password) ==
    {u \in users : u.email = email /\ ActiveClause(v, u)}
AuthCandidates(v, email, password) ==
    {u \in users :
        /\ u.email = email
        /\ ActiveClause(v, u)
        /\ verify_password(password, u.hashed_password)}

\* The whole body is in a try block whose `except Exception` returns None:
\* fault names the statement at which the database fails, if any.
authenticate_user(v, email, password, fault) ==
    /\ IF fault = "execute"
       THEN /\ resp' = [NoResp EXCEPT !.status = RETURNED, !.nq = 1]
            /\ UNCHANGED users
       ELSE IF AuthCandidates(v, email, password) = {}
       THEN /\ resp' = [NoResp EXCEPT !.status = RETURNED, !.nq = 1]
            /\ UNCHANGED users
       ELSE IF fault = "commit"
       THEN /\ resp' = [NoResp EXCEPT !.status = RETURNED, !.nq = 2]
            /\ UNCHANGED users
       ELSE LET user == CHOOSE u \in AuthCandidates(v, email, password) : TRUE
                row == [user EXCEPT !.last_login = now]
            IN  /\ users' = (users \ {user}) \cup {row}
                /\ resp' = [NoResp EXCEPT !.status = RETURNED,
                                          !.rows = {row}, !.nq = 2]
    /\ UNCHANGED <<posts, nextPostId, nextUserId, now, req,
                   tasks, sessions, cache, heap>>

\* Tokens (python-jose, HS256).  A token is its claims and a signature, the
\* MAC of the claims under a key; str(user.id) is the text form of an id and
\* UUID(text) parses it back, raising ValueError on any other text.
SECRET_KEY == "secret_key"
ACCESS_TOKEN_EXPIRE_MINUTES == 30

NoSub == <<>>
str_id(id) == <<"uuid", id>>
IsUuidText(sub) == Len(sub) = 2 /\ sub[1] = "uuid"
UUID(sub) == sub[2]

Sign(claims, key) == [key |-> key, claims |-> claims]
jwt_encode(claims, key) == [claims |-> claims, sig |-> Sign(claims, key)]

\* login: data={"sub": str(user.id), "username": user.username}
token_data(user) == [sub |-> str_id(user.id), username |-> user.username]

\* create_access_token(data, expires_delta) at time t: exp is t plus the
\* delta, or plus the configured life when no delta is given.
create_access_token(data, delta, t) ==
    jwt_encode([sub |-> data.sub, username |-> data.username,
                exp |-> t + (IF delta = NoTime
                             THEN ACCESS_TOKEN_EXPIRE_MINUTES ELSE delta)],
               SECRET_KEY)

\* jwt.decode(token, key, algorithms) at time t: the payload, or the
\* exception it raises.  A signature that is not the MAC of the claims under
\* the key raises JWTError; so does exp < t (ExpiredSignatureError is a
\* JWTError; a token is still good at t = exp).
\* (A faulty decoder that ignores exp, then the decoder.)
jwt_decode_no_exp(token, key, t) ==
    IF token.sig # Sign(token.claims, key)
    THEN [raised |-> "JWTError", payload |-> <<>>]
    ELSE [raised |-> NULL, payload |-> <<token.claims>>]
jwt_decode(token, key, t) ==
    IF token.sig # Sign(token.claims, key)
    THEN [raised |-> "JWTError", payload |-> <<>>]
    ELSE IF token.claims.exp < t
    THEN [raised |-> "JWTError", payload |-> <<>>]
    ELSE [raised |-> NULL, payload |-> <<token.claims>>]

\* The try block of verify_token: None when sub or username is missing,
\* else TokenData(user_id=UUID(sub), username=username); UUID(sub) raises
\* ValueError on text that is no UUID.
verify_token_try(token, t) ==
    LET d == jwt_decode(token, SECRET_KEY, t) IN
    IF d.raised # NULL THEN [raised |-> d.raised, value |-> <<>>]
    ELSE LET payload == d.payload[1] IN
         IF payload.sub = NoSub \/ payload.username = NULL
         THEN [raised |-> NULL, value |-> <<>>]
         ELSE IF ~ IsUuidText(payload.sub)
         THEN [raised |-> "ValueError", value |-> <<>>]
         ELSE [raised |-> NULL,
               value |-> <<[user_id |-> UUID(payload.sub),
                            username |-> payload.username]>>]

\* verify_token: "except JWTError: return None", "except Exception: return
\* None".  The result is the exception that escapes, if any, and the value.
Caught == {"JWTError", "ValueError"}
verify_token(token, t) ==
    LET r == verify_token_try(token, t) IN
    IF r.raised \in Caught THEN [raised |-> NULL, value |-> <<>>] ELSE r

login(v, email, password) ==
    /\ IF AuthCandidates(v, email, password) = {}
       THEN /\ resp' = [NoResp EXCEPT !.status = HTTP_401, !.nq = 1]
            /\ UNCHANGED users
       ELSE LET user == CHOOSE u \in AuthCandidates(v, email, password) : TRUE
                row == [user EXCEPT !.last_login = now]
            IN  /\ users' = (users \ {user}) \cup {row}
                /\ resp' = [NoResp EXCEPT
                      !.status = HTTP_200, !.rows = {row}, !.nq = 2,
                      !.token = <<[access_token |->
                                      create_access_token(token_data(row),
                                                          NoTime, now),
                                   token_type |-> "bearer"]>>]
    /\ UNCHANGED <<posts, nextPostId, nextUserId, now, req,
                   tasks, sessions, cache, heap>>

RegisterRequest ==
    /\ Pending("register")
    /\ register(req.email, req.username, req.password)

UpdateProfileRequest ==
    /\ Pending("update_profile")
    /\ update_current_user(Caller, req.email, req.username, req.active,
                           UndeclaredKey(req.superuser))

AuthenticateCall ==
    /\ Pending("authenticate")
    /\ authenticate_user(req.variant, req.email, req.password, req.fault)

LoginRequest ==
    /\ Pending("login")
    /\ login(req.variant, req.email, req.password)

AuthRequests(cs) ==
    {[NoReq EXCEPT !.op = "register", !.variant = "flat", !.email = e,
                   !.username = n, !.password = "p1"] :
        e \in Emails, n \in Usernames}
    \cup
    {[NoReq EXCEPT !.op = "update_profile", !.variant = "flat",
                   !.caller = c, !.email = e, !.username = n, !.active = a] :
        c \in cs, e \in Emails \cup {NULL, UNSET},
        n \in Usernames \cup {NULL, UNSET}, a \in {UNSET, FF}}
    \cup
    {[NoReq EXCEPT !.op = o, !.variant = v, !.email = e, !.password = pw] :
        o \in {"authenticate", "login"}, v \in Variants,
        e \in Emails, pw \in Passwords}

InitAuth ==
    /\ users = {}
    /\ posts = {}
    /\ nextPostId = 1
    /\ nextUserId = 1
    /\ now = 0
    /\ req = NoReq
    /\ resp = NoResp
    /\ tasks = <<>>
    /\ sessions = <<>>
    /\ cache = NoCache
    /\ heap = NoHeap

SendAuthRequest == Send(AuthRequests({u.id : u \in ActiveUsers}))

NextAuth ==
    \/ SendAuthRequest
    \/ RegisterRequest
    \/ UpdateProfileRequest
    \/ AuthenticateCall
    \/ LoginRequest
    \/ Deliver
    \/ Tick

SpecAuth == InitAuth /\ [][NextAuth]_vars

\* The same requests, and calls of authenticate_user during which the
\* database fails at the select or at the commit.
FaultyCalls ==
    {[NoReq EXCEPT !.op = "authenticate", !.variant = v, !.email = e,
                   !.password = pw, !.fault = f] :
        v \in Variants, e \in Emails, pw \in Passwords,
        f \in {"execute", "commit"}}

SendLoginRequest ==
    Send(AuthRequests({u.id : u \in ActiveUsers}) \cup FaultyCalls)

NextLogin ==
    \/ SendLoginRequest
    \/ RegisterRequest
    \/ UpdateProfileRequest
    \/ AuthenticateCall
    \/ LoginRequest
    \/ Deliver
    \/ Tick

SpecLogin == InitAuth /\ [][NextLogin]_vars

-----------------------------------------------------------------------------
(* The account and post requests together, sent to a deployment that has
   one superuser *)

\* Bodies of PUT /auth/me that carry an is_superuser key, beside the others.
ApiRequests(cs) ==
    {[NoReq EXCEPT !.op = "register", !.variant = "flat", !.email = e,
                   !.username = n, !.password = "p2"] :
        e \in Emails, n \in Usernames}
    \cup
    {[NoReq EXCEPT !.op = "update_profile", !.variant = "flat",
                   !.caller = c, !.email = e, !.active = a, !.username = UNSET,
                   !.superuser = su] :
        c \in cs, e \in {"e2", UNSET}, a \in {UNSET, FF},
        su \in {UNSET, TT, FF}}
    \cup
    {[NoReq EXCEPT !.op = "login", !.variant = "flat", !.email = e,
                   !.password = pw] : e \in Emails, pw \in Passwords}
    \cup
    {[NoReq EXCEPT !.op = "create_post", !.variant = v, !.caller = c,
                   !.slug = sl, !.pub = FF] :
        v \in Variants, c \in cs, sl \in Slugs}
    \cup
    {[NoReq EXCEPT !.op = "update_post", !.variant = v, !.caller = c,
                   !.pid = 1, !.slug = UNSET, !.pub = b] :
        v \in Variants, c \in cs, b \in {UNSET, TT}}
    \cup
    {[NoReq EXCEPT !.op = "delete_post", !.variant = v, !.caller = c,
                   !.pid = 1] : v \in Variants, c \in cs}

InitApi ==
    /\ users = {u \in SeedUsers : u.id = 1}
    /\ posts = {}
    /\ nextPostId = 1
    /\ nextUserId = 2
    /\ now = 0
    /\ req = NoReq
    /\ resp = NoResp
    /\ tasks = <<>>
    /\ sessions = <<>>
    /\ cache = NoCache
    /\ heap = NoHeap

SendApiRequest == Send(ApiRequests({u.id : u \in ActiveUsers}))

NextApi ==
    \/ SendApiRequest
    \/ RegisterRequest
    \/ LoginRequest
    \/ UpdateProfileRequest
    \/ CreatePostRequest
    \/ UpdatePostRequest
    \/ DeletePostRequest
    \/ Deliver

SpecApi == InitApi /\ [][NextApi]_vars

-----------------------------------------------------------------------------
(* Tokens: create_access_token and verify_token called directly *)

MaxClock == 31

\* Minutes pass between calls, up to past the life of a token.
Clock ==
    /\ req = NoReq
    /\ now < MaxClock
    /\ now' = now + 1
    /\ UNCHANGED <<users, posts, nextPostId, nextUserId, req, resp,
                   tasks, sessions, cache, heap>>

VerifyTokenCall ==
    /\ Pending("verify_token")
    /\ LET r == verify_token(req.token[1], now) IN
       resp' = [NoResp EXCEPT
                  !.status = IF r.raised = NULL THEN RETURNED ELSE HTTP_500,
                  !.rows = {r.value[k] : k \in 1..Len(r.value)}]
    /\ UNCHANGED <<users, posts, nextPostId, nextUserId, now, req,
                   tasks, sessions, cache, heap>>

\* expires_delta: none, or a short life.
Deltas == {NoTime, 1}
TokenIds == 1..2
\* A sub that is no UUID.
BadSub == <<"text", 0>>

\* The tokens created up to time t for the ids and usernames.
IssuedTokens(t) ==
    {create_access_token([sub |-> str_id(i), username |-> n], d, t0) :
        i \in TokenIds, n \in Usernames, d \in Deltas, t0 \in 0..t}

\* What a client can present at time t: a created token; one whose claims
\* were changed and the signature kept; one signed with another key; one
\* created from data without sub, without username, or with a sub that is
\* no UUID.
TokenInputs(t) ==
    IssuedTokens(t)
    \cup {[tok EXCEPT !.claims.sub = str_id(i)] :
            tok \in IssuedTokens(t), i \in TokenIds}
    \cup {[tok EXCEPT !.claims.exp = MaxClock + 1] : tok \in IssuedTokens(t)}
    \cup {[tok EXCEPT !.sig = Sign(tok.claims, "other_key")] :
            tok \in IssuedTokens(t)}
    \cup {create_access_token([sub |-> sb, username |-> n], d, t0) :
            sb \in {NoSub, BadSub, str_id(1)}, n \in Usernames \cup {NULL},
            d \in Deltas, t0 \in 0..t}

SendTokenCall ==
    Send({[NoReq EXCEPT !.op = "verify_token", !.token = <<tok>>] :
            tok \in TokenInputs(now)})

NextToken ==
    \/ SendTokenCall
    \/ VerifyTokenCall
    \/ Deliver
    \/ Clock

SpecToken == InitAuth /\ [][NextToken]_vars

-----------------------------------------------------------------------------
(* The gates of a protected route: bearer token, current user, active user,
   permissions *)

\* The result of a dependency: the user it yields, or the status of the
\* HTTPException it raises.
Admit(u) == [status |-> HTTP_200, user |-> {u}]
Reject(status) == [status |-> status, user |-> {}]

\* select(User).where(User.id == token_data.user_id, User.is_active == True)
\* (A faulty lookup by id alone, then the lookup.)
UserByIdAnyState(tbl, id) == {u \in tbl : u.id = id}
ActiveUserById(tbl, id) == {u \in tbl : u.id = id /\ u.is_active = TT}

\* get_current_user.  HTTPBearer() answers 403 to a request without an
\* Authorization header before the body runs; in the body every failure,
\* an exception included, ends as the one 401.
get_current_user(header, t) ==
    IF header = <<>> THEN Reject(HTTP_403)
    ELSE LET r == verify_token(header[1], t) IN
         IF r.raised # NULL \/ r.value = <<>> THEN Reject(HTTP_401)
         ELSE LET found == ActiveUserById(users, r.value[1].user_id) IN
              IF found = {} THEN Reject(HTTP_401)
              ELSE Admit(CHOOSE u \in found : TRUE)

\* get_current_active_user, on the result of get_current_user.
get_current_active_user(cu) ==
    IF cu.status # HTTP_200 THEN cu
    ELSE LET u == CHOOSE x \in cu.user : TRUE IN
         IF ~ Truthy(u.is_active) THEN Reject(HTTP_400) ELSE cu

\* PermissionChecker(required).__call__, on the result of
\* get_current_active_user.
\* (A faulty checker that asks for a superuser whatever the list, then the
\* checker.)
PermissionCheckerSuperuserOnly(required, cu) ==
    IF cu.status # HTTP_200 THEN cu
    ELSE LET u == CHOOSE x \in cu.user : TRUE IN
         IF ~ u.is_superuser THEN Reject(HTTP_403) ELSE cu
PermissionChecker(required, cu) ==
    IF cu.status # HTTP_200 THEN cu
    ELSE LET u == CHOOSE x \in cu.user : TRUE IN
         IF ~ u.is_superuser /\ required # <<>> THEN Reject(HTTP_403) ELSE cu

\* GET /auth/me: the profile of the user the gates yield.
GetMeRequest ==
    /\ Pending("get_me")
    /\ LET cu == get_current_active_user(get_current_user(req.token, now)) IN
       resp' = [NoResp EXCEPT !.status = cu.status, !.rows = cu.user]
    /\ UNCHANGED <<users, posts, nextPostId, nextUserId, now, req,
                   tasks, sessions, cache, heap>>

\* A route that depends on PermissionChecker(required) and returns the user.
PermissionRequest ==
    /\ Pending("require")
    /\ LET cu == PermissionChecker(req.required,
                    get_current_active_user(get_current_user(req.token, now)))
       IN  resp' = [NoResp EXCEPT !.status = cu.status, !.rows = cu.user]
    /\ UNCHANGED <<users, posts, nextPostId, nextUserId, now, req,
                   tasks, sessions, cache, heap>>

\* The ids and usernames tokens are made for: the accounts, and one id that
\* is no account.
TokenHolders ==
    {<<u.id, u.username>> : u \in SeedUsers} \cup {<<MaxUserIds + 1, "n4">>}

\* Authorization headers at time t: none; a token made up to t, with the
\* configured life or a life of 1; such a token signed with another key; a
\* token without sub.
Headers(t) ==
    LET made == {create_access_token(
                     [sub |-> str_id(h[1]), username |-> h[2]], d, t0) :
                   h \in TokenHolders, d \in Deltas, t0 \in 0..t}
    IN  {<<>>}
        \cup {<<tok>> : tok \in made}
        \cup {<<[tok EXCEPT !.sig = Sign(tok.claims, "other_key")]>> :
                tok \in made}
        \cup {<<create_access_token([sub |-> NoSub, username |-> "n1"],
                                    NoTime, t)>>}

\* required_permissions
RequiredLists == {<<>>, <<"admin">>, <<"user">>, <<"nosuch", "user">>}

GuardRequests(t, cs) ==
    {[NoReq EXCEPT !.op = "get_me", !.token = h] : h \in Headers(t)}
    \cup {[NoReq EXCEPT !.op = "require", !.token = h, !.required = rq] :
            h \in Headers(t), rq \in RequiredLists}
    \cup {[NoReq EXCEPT !.op = "update_profile", !.variant = "flat",
                        !.caller = c, !.email = UNSET, !.username = UNSET,
                        !.active = FF] : c \in cs}

InitGuard ==
    /\ users = SeedUsers
    /\ posts = {}
    /\ nextPostId = 1
    /\ nextUserId = MaxUserIds + 1
    /\ now = 0
    /\ req = NoReq
    /\ resp = NoResp
    /\ tasks = <<>>
    /\ sessions = <<>>
    /\ cache = NoCache
    /\ heap = NoHeap

SendGuardRequest == Send(GuardRequests(now, {u.id : u \in ActiveUsers}))

NextGuard ==
    \/ SendGuardRequest
    \/ GetMeRequest
    \/ PermissionRequest
    \/ UpdateProfileRequest
    \/ Deliver
    \/ Tick

SpecGuard == InitGuard /\ [][NextGuard]_vars

-----------------------------------------------------------------------------
(* The per-request session scope get_db, used by concurrent requests *)

MaxTasks == 2
MaxSessions == 2
TaskIds == 1..MaxTasks

\* Exception classes: the database-level ones (SQLAlchemyError and its
\* subclasses) and any other.
SQLAlchemyError == "SQLAlchemyError"
OtherError == "Exception"
OK == "ok"

\* A coroutine that is not running, and a session just created.
NoTask ==
    [pc |-> "idle", sid |-> 0, body |-> NULL, commit |-> NULL,
     raised |-> NULL]
NewSession == [log |-> <<>>]

RequestState ==
    <<users, posts, nextPostId, nextUserId, now, req, resp, cache, heap>>

\* An operation on the session of task i.
SessionOp(i, op) ==
    sessions' = [sessions EXCEPT ![tasks[i].sid].log = Append(@, op)]

\* except SQLAlchemyError
\* (A clause that catches nothing, then the clause.)
HandlesNothing(exc) == FALSE
Handles(exc) == exc = SQLAlchemyError

\* async with AsyncSessionLocal() as session: ... yield session
OpenSession(i) ==
    /\ tasks[i].pc = "idle"
    /\ Len(sessions) < MaxSessions
    /\ sessions' = Append(sessions, NewSession)
    /\ tasks' = [tasks EXCEPT ![i] =
                    [NoTask EXCEPT !.pc = "yield", !.sid = Len(sessions) + 1]]
    /\ UNCHANGED RequestState

\* The request runs with the session it was handed, using it or not, and
\* finishes normally or throws into the generator at the yield.
\* After a normal finish the generator goes on to the commit; an exception
\* goes to the except clause if it handles it, else to the finally clause.
Body(i) ==
    /\ tasks[i].pc = "yield"
    /\ \E outcome \in {OK, SQLAlchemyError, OtherError}, used \in BOOLEAN :
          /\ IF used THEN SessionOp(i, "execute") ELSE UNCHANGED sessions
          /\ tasks' = [tasks EXCEPT
                ![i].body = outcome,
                ![i].raised = IF outcome = OK THEN NULL ELSE outcome,
                ![i].pc = IF outcome = OK THEN "commit"
                          ELSE IF Handles(outcome) THEN "rollback"
                          ELSE "finally"]
    /\ UNCHANGED RequestState

\* await session.commit(): it succeeds or raises.
Commit(i) ==
    /\ tasks[i].pc = "commit"
    /\ SessionOp(i, "commit")
    /\ \E outcome \in {OK, SQLAlchemyError, OtherError} :
          tasks' = [tasks EXCEPT
                ![i].commit = outcome,
                ![i].raised = IF outcome = OK THEN NULL ELSE outcome,
                ![i].pc = IF outcome = OK THEN "finally"
                          ELSE IF Handles(outcome) THEN "rollback"
                          ELSE "finally"]
    /\ UNCHANGED RequestState

\* except SQLAlchemyError: await session.rollback(); raise
Rollback(i) ==
    /\ tasks[i].pc = "rollback"
    /\ SessionOp(i, "rollback")
    /\ tasks' = [tasks EXCEPT ![i].pc = "finally"]
    /\ UNCHANGED RequestState

\* finally: await session.close()
Finally(i) ==
    /\ tasks[i].pc = "finally"
    /\ SessionOp(i, "close")
    /\ tasks' = [tasks EXCEPT ![i].pc = "exit"]
    /\ UNCHANGED RequestState

\* Leaving the async with block: the session's __aexit__ closes it (again);
\* the exception in flight, if any, propagates to the caller.
ExitScope(i) ==
    /\ tasks[i].pc = "exit"
    /\ SessionOp(i, "close")
    /\ tasks' = [tasks EXCEPT ![i].pc = "done"]
    /\ UNCHANGED RequestState

\* The request is over; the coroutine can serve another.
Finish(i) ==
    /\ tasks[i].pc = "done"
    /\ tasks' = [tasks EXCEPT ![i] = NoTask]
    /\ UNCHANGED <<sessions, RequestState>>

InitSession ==
    /\ users = {}
    /\ posts = {}
    /\ nextPostId = 1
    /\ nextUserId = 1
    /\ now = 0
    /\ req = NoReq
    /\ resp = NoResp
    /\ tasks = [i \in TaskIds |-> NoTask]
    /\ sessions = <<>>
    /\ cache = NoCache
    /\ heap = NoHeap

NextSession ==
    \E i \in TaskIds :
        \/ OpenSession(i)
        \/ Body(i)
        \/ Commit(i)
        \/ Rollback(i)
        \/ Finally(i)
        \/ ExitScope(i)
        \/ Finish(i)

SpecSession == InitSession /\ [][NextSession]_vars

-----------------------------------------------------------------------------
(* CacheKeyBuilder.build_key *)

MaxArgs == 2
MaxKwargs == 3

\* Python values: a type and the text str() gives.  A string is the
\* sequence of its pieces.
PyValues ==
    {[type |-> "int", text |-> "1"], [type |-> "str", text |-> "1"],
     [type |-> "str", text |-> "x"]}
str(value) == <<value.text>>

\* Keyword names, in string order.
NameSeq == <<"author", "page", "size">>
Names == {NameSeq[i] : i \in 1..Len(NameSeq)}
NameRank(name) == CHOOSE i \in 1..Len(NameSeq) : NameSeq[i] = name

\* The order of sorted() on (name, value) items: names are distinct in a
\* dict, so the value never decides.
ItemBefore(p, q) == NameRank(p[1]) < NameRank(q[1])

RECURSIVE InsertItem(_, _)
InsertItem(item, s) ==
    IF s = <<>> THEN <<item>>
    ELSE IF ItemBefore(item, s[1]) THEN <<item>> \o s
    ELSE <<s[1]>> \o InsertItem(item, Tail(s))

RECURSIVE sorted(_)
\* sorted(kwargs.items())
\* (A sort that keeps the order of the call, then the sort.)
sorted_as_given(items) == items
sorted(items) ==
    IF items = <<>> THEN <<>>
    ELSE InsertItem(items[1], sorted(Tail(items)))

\* ":".join(parts)
RECURSIVE join(_)
join(parts) ==
    IF parts = <<>> THEN <<>>
    ELSE IF Len(parts) = 1 THEN parts[1]
    ELSE parts[1] \o <<":">> \o join(Tail(parts))

\* f"{k}={v}"
KwPart(item) == <<item[1], "=">> \o str(item[2])

build_key(prefix, args, kwargs) ==
    LET positional == [i \in 1..Len(args) |-> str(args[i])]
        named == IF kwargs # <<>>
                 THEN LET sorted_kwargs == sorted(kwargs) IN
                      [i \in 1..Len(sorted_kwargs) |-> KwPart(sorted_kwargs[i])]
                 ELSE <<>>
    IN  join(<<<<prefix>>>> \o positional \o named)

BuildKeyCall ==
    /\ Pending("build_key")
    /\ resp' = [NoResp EXCEPT
                  !.status = RETURNED,
                  !.key = build_key(req.prefix, req.args, req.kwargs)]
    /\ UNCHANGED <<users, posts, nextPostId, nextUserId, now, req, tasks,
                   sessions, cache, heap>>

Prefixes == {"posts", "user"}

\* **kwargs as the call gives them: up to n items with distinct names, in
\* any order.
KwargsUpTo(n) ==
    UNION {{kw \in [1..k -> Names \X PyValues] :
               \A i, j \in 1..k : i # j => kw[i][1] # kw[j][1]} :
           k \in 0..Min(n, Len(NameSeq))}

ArgsUpTo(n) == UNION {[1..k -> PyValues] : k \in 0..n}

SendBuildKeyCall ==
    Send({[NoReq EXCEPT !.op = "build_key", !.prefix = pf, !.args = a,
                        !.kwargs = kw] :
            pf \in Prefixes, a \in ArgsUpTo(MaxArgs),
            kw \in KwargsUpTo(MaxKwargs)})

NextCacheKey ==
    \/ SendBuildKeyCall
    \/ BuildKeyCall
    \/ Deliver

SpecCacheKey == InitAuth /\ [][NextCacheKey]_vars

-----------------------------------------------------------------------------
(* RedisCache: the cache operations over a server that may not answer *)

DEFAULT_TIMEOUT == 3600
MaxCount == 2

\* Python values: a tag and the content.
None == <<"none">>
True == <<"bool", "true">>
False == <<"bool", "false">>
PyBool(b) == IF b THEN True ELSE False
PyInt(n) == <<"int", n>>
PyList(S) == <<"list", S>>

\* An entry of the server: the stored text and its time to live (-1 when
\* it has none).  A text is the literal of an integer, the JSON literal of
\* a string, or pickled bytes.
Entry(text, ttl) == <<[text |-> text, ttl |-> ttl]>>
Present(k) == cache.store[k] # NoEntry
IsIntText(k) == Present(k) /\ cache.store[k][1].text[1] = "int"

\* json.dumps(value): TypeError on a value JSON cannot express.
Serializable(v) == v[1] \in {"int", "str"}
json_dumps(v) == IF v[1] = "int" THEN v ELSE <<"json", v[2]>>
\* json.loads(text)
json_loads(text) == IF text[1] = "int" THEN text ELSE <<"str", text[2]>>
pickle_dumps(v) == <<"pickle", v>>

\* The outcome of a try block: the exception raised, if any, else the value
\* returned and the store as the operation leaves it.
Ret(v, st) == [raised |-> NULL, value |-> v, store |-> st]
Raise(e) == [raised |-> e, value |-> None, store |-> cache.store]

\* KEYS pattern
Match(pattern) ==
    {k \in CacheKeys : Present(k) /\ (pattern = "*" \/ pattern = k)}

\* The try blocks.  Every client call raises ConnectionError while the
\* server does not answer.
get_try(k) ==
    IF ~ cache.up THEN Raise("ConnectionError")
    ELSE IF ~ Present(k) THEN Ret(None, cache.store)
    ELSE IF cache.store[k][1].text[1] = "pickle"
    THEN Raise("UnicodeDecodeError")
    ELSE Ret(json_loads(cache.store[k][1].text), cache.store)

set_try(k, v, timeout, use_json) ==
    LET t == IF timeout = NoTime THEN DEFAULT_TIMEOUT ELSE timeout
        text == IF use_json /\ Serializable(v)
                THEN json_dumps(v) ELSE pickle_dumps(v)
    IN  IF ~ cache.up THEN Raise("ConnectionError")
        ELSE IF t <= 0 THEN Raise("ResponseError")
        ELSE Ret(True, [cache.store EXCEPT ![k] = Entry(text, t)])

delete_try(k) ==
    IF ~ cache.up THEN Raise("ConnectionError")
    ELSE Ret(PyBool(Present(k)), [cache.store EXCEPT ![k] = NoEntry])

exists_try(k) ==
    IF ~ cache.up THEN Raise("ConnectionError")
    ELSE Ret(PyBool(Present(k)), cache.store)

expire_try(k, timeout) ==
    IF ~ cache.up THEN Raise("ConnectionError")
    ELSE IF ~ Present(k) THEN Ret(False, cache.store)
    ELSE IF timeout <= 0
    THEN Ret(True, [cache.store EXCEPT ![k] = NoEntry])
    ELSE Ret(True, [cache.store EXCEPT ![k][1].ttl = timeout])

ttl_try(k) ==
    IF ~ cache.up THEN Raise("ConnectionError")
    ELSE IF ~ Present(k) THEN Ret(PyInt(-2), cache.store)
    ELSE Ret(PyInt(cache.store[k][1].ttl), cache.store)

clear_pattern_try(pattern) ==
    IF ~ cache.up THEN Raise("ConnectionError")
    ELSE IF Match(pattern) # {}
    THEN Ret(PyInt(Cardinality(Match(pattern))),
             [k \in CacheKeys |->
                 IF k \in Match(pattern) THEN NoEntry ELSE cache.store[k]])
    ELSE Ret(PyInt(0), cache.store)

increment_try(k, amount) ==
    IF ~ cache.up THEN Raise("ConnectionError")
    ELSE IF ~ Present(k)
    THEN Ret(PyInt(amount),
             [cache.store EXCEPT ![k] = Entry(PyInt(amount), -1)])
    ELSE IF ~ IsIntText(k) THEN Raise("ResponseError")
    ELSE LET n == cache.store[k][1].text[2] + amount IN
         Ret(PyInt(n), [cache.store EXCEPT ![k][1].text = PyInt(n)])

decrement_try(k, amount) == increment_try(k, 0 - amount)

get_keys_try(pattern) ==
    IF ~ cache.up THEN Raise("ConnectionError")
    ELSE Ret(PyList(Match(pattern)), cache.store)

\* try: ... except Exception: log, return the default
\* (A wrapper that lets the exception through, then the wrapper.)
Unguarded(r, default) == r
Guarded(r, default) ==
    IF r.raised # NULL THEN Ret(default, cache.store) ELSE r

\* The call returns to its caller, or the exception escapes.
CacheReturn(r) ==
    /\ resp' = [NoResp EXCEPT
                  !.status = IF r.raised = NULL THEN RETURNED ELSE HTTP_500,
                  !.value = r.value]
    /\ cache' = [cache EXCEPT !.store = r.store]
    /\ UNCHANGED <<users, posts, nextPostId, nextUserId, now, req, tasks,
                   sessions, heap>>

CacheGet ==
    Pending("cache.get") /\ CacheReturn(Guarded(get_try(req.ckey), None))
CacheSet ==
    /\ Pending("cache.set")
    /\ CacheReturn(Guarded(set_try(req.ckey, req.cvalue, req.timeout,
                                   req.use_json = TT), False))
CacheDelete ==
    Pending("cache.delete") /\ CacheReturn(Guarded(delete_try(req.ckey), False))
CacheExists ==
    Pending("cache.exists") /\ CacheReturn(Guarded(exists_try(req.ckey), False))
CacheExpire ==
    /\ Pending("cache.expire")
    /\ CacheReturn(Guarded(expire_try(req.ckey, req.timeout), False))
CacheTtl ==
    Pending("cache.ttl") /\ CacheReturn(Guarded(ttl_try(req.ckey), PyInt(-1)))
CacheClearPattern ==
    /\ Pending("cache.clear_pattern")
    /\ CacheReturn(Guarded(clear_pattern_try(req.pattern), PyInt(0)))
CacheIncrement ==
    /\ Pending("cache.increment")
    /\ CacheReturn(Guarded(increment_try(req.ckey, req.amount), None))
CacheDecrement ==
    /\ Pending("cache.decrement")
    /\ CacheReturn(Guarded(decrement_try(req.ckey, req.amount), None))
CacheGetKeys ==
    /\ Pending("cache.get_keys")
    /\ CacheReturn(Guarded(get_keys_try(req.pattern), PyList({})))

\* The server stops answering, or answers again.
Outage ==
    /\ req = NoReq
    /\ cache' = [cache EXCEPT !.up = ~ @]
    /\ UNCHANGED <<users, posts, nextPostId, nextUserId, now, req, resp,
                   tasks, sessions, heap>>

CacheValues == {PyInt(1), <<"str", "x">>, <<"object", "o">>}
Patterns == {"*", "k1", "z*"}
Timeouts == {NoTime, 0, 5}

\* A counter stays within MaxCount of zero.
CounterInRange(k, by) ==
    IsIntText(k) =>
        /\ cache.store[k][1].text[2] + by <= MaxCount
        /\ cache.store[k][1].text[2] + by >= 0 - MaxCount

CacheCalls ==
    {[NoReq EXCEPT !.op = o, !.ckey = k] :
        o \in {"cache.get", "cache.delete", "cache.exists", "cache.ttl"},
        k \in CacheKeys}
    \cup {[NoReq EXCEPT !.op = "cache.set", !.ckey = k, !.cvalue = v,
                        !.timeout = t, !.use_json = j] :
            k \in CacheKeys, v \in CacheValues, t \in Timeouts, j \in Bools}
    \cup {[NoReq EXCEPT !.op = "cache.expire", !.ckey = k, !.timeout = t] :
            k \in CacheKeys, t \in {0, 5}}
    \cup {[NoReq EXCEPT !.op = o, !.pattern = pt] :
            o \in {"cache.clear_pattern", "cache.get_keys"}, pt \in Patterns}
    \cup {[NoReq EXCEPT !.op = "cache.increment", !.ckey = k, !.amount = 1] :
            k \in {x \in CacheKeys : CounterInRange(x, 1)}}
    \cup {[NoReq EXCEPT !.op = "cache.decrement", !.ckey = k, !.amount = 1] :
            k \in {x \in CacheKeys : CounterInRange(x, -1)}}

SendCacheCall == Send(CacheCalls)

NextCache ==
    \/ SendCacheCall
    \/ CacheGet
    \/ CacheSet
    \/ CacheDelete
    \/ CacheExists
    \/ CacheExpire
    \/ CacheTtl
    \/ CacheClearPattern
    \/ CacheIncrement
    \/ CacheDecrement
    \/ CacheGetKeys
    \/ Deliver
    \/ Outage

SpecCache == InitAuth /\ [][NextCache]_vars

-----------------------------------------------------------------------------
(* The decorators handle_response and handle_exceptions, and the
   process-wide exception handlers *)

\* A detail or message: a text, or a structured body with the names of the
\* entries of its details that hold a value.
Text(msg) == <<"str", msg>>
Structured(error, message, details) ==
    <<"dict", [error |-> error, message |-> message, details |-> details]>>
IsStr(x) == x[1] = "str"

\* How a call ends: it returns, or it raises an exception of a class; an
\* HTTPException carries a status and a detail, another exception its text.
Returns == [raised |-> NULL, status |-> HTTP_200, detail |-> <<>>]
HTTPException(status, detail) ==
    [raised |-> "HTTPException", status |-> status, detail |-> detail]
Raises(class, text) ==
    [raised |-> class, status |-> HTTP_500, detail |-> Text(text)]

\* pydantic's ValidationError is a ValueError.
IsValueError(class) == class \in {"ValueError", "ValidationError"}

\* ErrorResponse(error=, message=, details=).model_dump(): message is
\* declared str, so any other message raises ValidationError.
ErrorResponse(error, message, details) ==
    IF IsStr(message)
    THEN [raised |-> NULL, dump |-> Structured(error, message[2], details)]
    ELSE [raised |-> "ValidationError", dump |-> <<>>]

\* error_code or DEFAULT
Or(error_code, default) == IF error_code = NULL THEN default ELSE error_code

\* handle_exceptions(error_code) around a call that ended as o.
handle_exceptions(o, error_code) ==
    IF o.raised = NULL \/ o.raised = "HTTPException" THEN o
    ELSE IF IsValueError(o.raised)
    THEN HTTPException(HTTP_422,
            ErrorResponse(Or(error_code, "VALIDATION_ERROR"), o.detail,
                          {"function"}).dump)
    ELSE HTTPException(HTTP_500,
            ErrorResponse(Or(error_code, "INTERNAL_ERROR"),
                          Text("Internal server error"),
                          {"function", "error_type", "error_message",
                           "traceback"}).dump)

\* handle_response(error_code=) around a call that ended as o.  An exception
\* raised inside an except clause is not caught by the clauses after it.
handle_response(o, error_code) ==
    IF o.raised = NULL THEN o
    ELSE IF o.raised = "HTTPException"
    THEN LET e == ErrorResponse(Or(error_code, "BAD_REQUEST"), o.detail,
                                {"status_code"})
         IN  IF e.raised # NULL THEN Raises(e.raised, "message")
             ELSE HTTPException(o.status, e.dump)
    ELSE IF IsValueError(o.raised)
    THEN HTTPException(HTTP_422,
            ErrorResponse("VALIDATION_ERROR", o.detail, {"function"}).dump)
    ELSE HTTPException(HTTP_500,
            ErrorResponse("INTERNAL_ERROR", Text("Internal server error"),
                          {"function", "error_type", "error_message"}
                          \cup (IF error_code = NULL
                                THEN {"traceback"} ELSE {})).dump)

\* general_exception_handler of main.py
general_exception_handler(o) ==
    HTTPException(HTTP_500,
        ErrorResponse("INTERNAL_ERROR", Text("Internal server error"),
                      {"exception_type"}).dump)

\* uncaught_exception_handler of core/exceptions.py
uncaught_exception_handler(o) ==
    HTTPException(HTTP_500,
        Structured("internal_server_error", "Internal Server Error",
             {"type", "message"}))

\* The call ends: the status and body of the HTTP error raised, or the
\* class of another exception that escapes.
Ends(o) ==
    /\ resp' = [NoResp EXCEPT !.status = o.status, !.raised = o.raised,
                              !.detail = o.detail]
    /\ UNCHANGED <<users, posts, nextPostId, nextUserId, now, req, tasks,
                   sessions, cache, heap>>

\* A handler that ends as req.raises, under handle_response over
\* handle_exceptions, or under one of them alone.
WrappedHandlerCall ==
    /\ Pending("wrapped")
    /\ Ends(IF req.wrap = "handle_exceptions"
            THEN handle_exceptions(req.raises[1], req.inner_code)
            ELSE IF req.wrap = "handle_response"
            THEN handle_response(req.raises[1], req.error_code)
            ELSE handle_response(
                     handle_exceptions(req.raises[1], req.inner_code),
                     req.error_code))

GeneralExceptionHandlerCall ==
    /\ Pending("general_exception_handler")
    /\ Ends(general_exception_handler(req.raises[1]))

UncaughtExceptionHandlerCall ==
    /\ Pending("uncaught_exception_handler")
    /\ Ends(uncaught_exception_handler(req.raises[1]))

\* What the handlers raise: HTTPException with a text detail (the flat
\* handlers), the post- and auth-domain errors with a structured detail,
\* and exceptions that are no HTTPException.
HTTPErrors ==
    {HTTPException(HTTP_400, Text("Email already registered")),
     HTTPException(HTTP_401, Text("Incorrect email or password")),
     HTTPException(HTTP_404, Structured("POST_NOT_FOUND", "Post not found", {})),
     HTTPException(HTTP_409,
                   Structured("SLUG_ALREADY_EXISTS", "Slug already exists", {})),
     HTTPException(HTTP_403, Structured("ACCESS_DENIED", "Access denied", {})),
     HTTPException(HTTP_401,
                   Structured("AUTHENTICATION_ERROR", "Authentication failed", {}))}
OtherErrors ==
    {Raises("ValueError", "bad value"), Raises("TypeError", "bad type")}
Wraps == {"handle_exceptions", "handle_response", "stacked"}
ErrorCodes == {NULL, "CUSTOM"}

WrapCalls ==
    {[NoReq EXCEPT !.op = "wrapped", !.wrap = w, !.error_code = ec,
                   !.inner_code = ic, !.raises = <<o>>] :
        w \in Wraps, ec \in ErrorCodes, ic \in ErrorCodes,
        o \in HTTPErrors \cup OtherErrors \cup {Returns}}
    \cup {[NoReq EXCEPT !.op = h, !.raises = <<o>>] :
            h \in {"general_exception_handler", "uncaught_exception_handler"},
            o \in OtherErrors \cup {Raises("ValidationError", "message")}}

SendWrapCall == Send(WrapCalls)

NextWrap ==
    \/ SendWrapCall
    \/ WrappedHandlerCall
    \/ GeneralExceptionHandlerCall
    \/ UncaughtExceptionHandlerCall
    \/ Deliver

SpecWrap == InitAuth /\ [][NextWrap]_vars

-----------------------------------------------------------------------------
(* PostService.create_post run by concurrent requests: each await is a point
   where the other request may run *)

\* A request that has not started.
NoCreate ==
    [pc |-> "idle", slug |-> NULL, author |-> NoId, passed |-> FALSE,
     status |-> NULL]

RaceFrame == <<users, nextUserId, now, req, resp, sessions, cache, heap>>

\* The request arrives with its PostCreate and its author.
StartCreate(i) ==
    /\ tasks[i].pc = "idle"
    /\ nextPostId <= MaxPostIds
    /\ \E slug \in Slugs, u \in ActiveUsers :
          tasks' = [tasks EXCEPT ![i] =
                       [NoCreate EXCEPT !.pc = "check", !.slug = slug,
                                        !.author = u.id]]
    /\ UNCHANGED <<posts, nextPostId, RaceFrame>>

\* await db.execute(select(Post).where(Post.slug == post_data.slug)); raise
\* SlugAlreadyExistsError if a row is found.
PreCheck(i) ==
    /\ tasks[i].pc = "check"
    /\ tasks' = [tasks EXCEPT ![i] =
          IF SlugExists(posts, tasks[i].slug)
          THEN [@ EXCEPT !.pc = "done", !.status = HTTP_409]
          ELSE [@ EXCEPT !.pc = "commit", !.passed = TRUE]]
    /\ UNCHANGED <<posts, nextPostId, RaceFrame>>

\* db.add(db_post); await db.commit(): the INSERT is accepted, or refused by
\* a constraint of the table (IntegrityError, which leaves the handler as an
\* internal error).
CommitCreate(i) ==
    /\ tasks[i].pc = "commit"
    /\ nextPostId <= MaxPostIds
    /\ LET author == CHOOSE u \in users : u.id = tasks[i].author
           row == NewPost(nextPostId, tasks[i].slug, FF, author, now)
       IN  IF ConstraintsHold(posts \cup {row})
           THEN /\ posts' = posts \cup {row}
                /\ nextPostId' = nextPostId + 1
                /\ tasks' = [tasks EXCEPT ![i].pc = "refresh"]
           ELSE /\ tasks' = [tasks EXCEPT ![i].pc = "done",
                                          ![i].status = HTTP_500]
                /\ UNCHANGED <<posts, nextPostId>>
    /\ UNCHANGED RaceFrame

\* await db.refresh(db_post); return db_post
RefreshCreate(i) ==
    /\ tasks[i].pc = "refresh"
    /\ tasks' = [tasks EXCEPT ![i].pc = "done", ![i].status = HTTP_200]
    /\ UNCHANGED <<posts, nextPostId, RaceFrame>>

InitRace ==
    /\ users = SeedUsers
    /\ posts = {}
    /\ nextPostId = 1
    /\ nextUserId = MaxUserIds + 1
    /\ now = 0
    /\ req = NoReq
    /\ resp = NoResp
    /\ tasks = [i \in TaskIds |-> NoCreate]
    /\ sessions = <<>>
    /\ cache = NoCache
    /\ heap = NoHeap

NextRace ==
    \E i \in TaskIds :
        \/ StartCreate(i)
        \/ PreCheck(i)
        \/ CommitCreate(i)
        \/ RefreshCreate(i)

SpecRace == InitRace /\ [][NextRace]_vars

-----------------------------------------------------------------------------
(* The create_post route inside its session scope: get_db around
   handle_response over handle_exceptions around the handler *)

\* What the handler of a request in the scope has reached.
ScopedTask(sid, slug, author) ==
    [pc |-> "check", sid |-> sid, body |-> NULL, commit |-> NULL,
     raised |-> NULL, slug |-> slug, author |-> author, failure |-> NULL,
     ended |-> <<>>]

\* @handle_response("...") @handle_exceptions() around a handler that ended
\* as o: no error code is given to either decorator.
Decorated(o) == handle_response(handle_exceptions(o, NULL), NULL)

\* The decorated handler has ended as o: a return lets the generator go on
\* after its yield, an exception is thrown into it at the yield.
AfterYield(task, o) ==
    [task EXCEPT !.ended = <<o>>,
                 !.body = IF o.raised = NULL THEN OK ELSE o.raised,
                 !.raised = o.raised,
                 !.pc = IF o.raised = NULL THEN "commit"
                        ELSE IF Handles(o.raised) THEN "rollback"
                        ELSE "finally"]

\* The route is called with the session the scope yielded.
HandlerStart(i) ==
    /\ tasks[i].pc = "yield"
    /\ nextPostId <= MaxPostIds
    /\ \E slug \in Slugs, u \in ActiveUsers :
          tasks' = [tasks EXCEPT ![i] = ScopedTask(tasks[i].sid, slug, u.id)]
    /\ UNCHANGED <<sessions, RequestState>>

\* create_post: the pre-check select; SlugAlreadyExistsError if a row is
\* found.
HandlerPreCheck(i) ==
    /\ tasks[i].pc = "check"
    /\ SessionOp(i, "execute")
    /\ tasks' = [tasks EXCEPT ![i] =
          IF SlugExists(posts, tasks[i].slug)
          THEN AfterYield(@, Decorated(HTTPException(HTTP_409,
                   Structured("SLUG_ALREADY_EXISTS", "Slug already exists",
                              {}))))
          ELSE [@ EXCEPT !.pc = "handler_commit"]]
    /\ UNCHANGED RequestState

\* create_post: db.add(db_post); await db.commit().  The INSERT is accepted
\* and the handler returns, or a constraint refuses it and the commit
\* raises IntegrityError, a SQLAlchemyError, inside the decorators.
HandlerCommit(i) ==
    /\ tasks[i].pc = "handler_commit"
    /\ nextPostId <= MaxPostIds
    /\ SessionOp(i, "commit")
    /\ LET author == CHOOSE u \in users : u.id = tasks[i].author
           row == NewPost(nextPostId, tasks[i].slug, FF, author, now)
       IN  IF ConstraintsHold(posts \cup {row})
           THEN /\ posts' = posts \cup {row}
                /\ nextPostId' = nextPostId + 1
                /\ tasks' = [tasks EXCEPT ![i] = AfterYield(@, Decorated(Returns))]
           ELSE /\ tasks' = [tasks EXCEPT ![i] =
                      AfterYield([@ EXCEPT !.failure = SQLAlchemyError],
                          Decorated(Raises(SQLAlchemyError, "duplicate key")))]
                /\ UNCHANGED <<posts, nextPostId>>
    /\ UNCHANGED <<users, nextUserId, now, req, resp, cache, heap>>

InitScoped ==
    /\ users = SeedUsers
    /\ posts = {}
    /\ nextPostId = 1
    /\ nextUserId = MaxUserIds + 1
    /\ now = 0
    /\ req = NoReq
    /\ resp = NoResp
    /\ tasks = [i \in TaskIds |-> NoTask]
    /\ sessions = <<>>
    /\ cache = NoCache
    /\ heap = NoHeap

NextScoped ==
    \E i \in TaskIds :
        \/ OpenSession(i)
        \/ HandlerStart(i)
        \/ HandlerPreCheck(i)
        \/ HandlerCommit(i)
        \/ Commit(i)
        \/ Rollback(i)
        \/ Finally(i)
        \/ ExitScope(i)
        \/ Finish(i)

SpecScoped == InitScoped /\ [][NextScoped]_vars

-----------------------------------------------------------------------------
(* Paginator.paginate split at its two awaits, while other requests create
   and delete posts *)

\* A paginate call that has not started.
NoPaginate ==
    [pc |-> "idle", page |-> 0, size |-> 0, total |-> 0, items |-> <<>>]

\* Paginator(...) with valid page and size, no filters and the default sort.
PaginateStart ==
    /\ tasks[1].pc = "idle"
    /\ \E pg \in 1..MaxPage, sz \in HandlerSizes :
          /\ ~ InvalidPaging(pg, sz)
          /\ tasks' = [tasks EXCEPT ![1] =
                [NoPaginate EXCEPT !.pc = "count", !.page = pg, !.size = sz]]
    /\ UNCHANGED <<users, posts, nextPostId, nextUserId, now, req, resp,
                   sessions, cache, heap>>

\* total = await self.get_total_count()
PaginateCount ==
    /\ tasks[1].pc = "count"
    /\ tasks' = [tasks EXCEPT ![1].total = get_total_count(posts, NoFilters),
                              ![1].pc = "items"]
    /\ UNCHANGED <<users, posts, nextPostId, nextUserId, now, req, resp,
                   sessions, cache, heap>>

\* items = await self.get_items(); the metadata are computed from total.
PaginateItems ==
    /\ tasks[1].pc = "items"
    /\ \E ord \in OrderBy(Matching(posts, NoFilters), NULL, "asc") :
          tasks' = [tasks EXCEPT
              ![1].items = get_items(ord, tasks[1].page, tasks[1].size),
              ![1].pc = "done"]
    /\ UNCHANGED <<users, posts, nextPostId, nextUserId, now, req, resp,
                   sessions, cache, heap>>

\* The result is returned; the next call may start.
PaginateReturn ==
    /\ tasks[1].pc = "done"
    /\ tasks' = [tasks EXCEPT ![1] = NoPaginate]
    /\ UNCHANGED <<users, posts, nextPostId, nextUserId, now, req, resp,
                   sessions, cache, heap>>

\* The requests of the other clients: creations and deletions.
WriteRequests(cs) ==
    {[NoReq EXCEPT !.op = "create_post", !.variant = "layered", !.caller = c,
                   !.slug = sl, !.pub = TT] : c \in cs, sl \in Slugs}
    \cup {[NoReq EXCEPT !.op = "delete_post", !.variant = "layered",
                        !.caller = c, !.pid = pid] :
            c \in cs, pid \in PostIds}

InitInterleaved ==
    /\ users = {u \in SeedUsers : u.id = 2}
    /\ posts = {}
    /\ nextPostId = 1
    /\ nextUserId = MaxUserIds + 1
    /\ now = 0
    /\ req = NoReq
    /\ resp = NoResp
    /\ tasks = <<NoPaginate>>
    /\ sessions = <<>>
    /\ cache = NoCache
    /\ heap = NoHeap

SendWriteRequest == Send(WriteRequests({u.id : u \in ActiveUsers}))

NextInterleaved ==
    \/ PaginateStart
    \/ PaginateCount
    \/ PaginateItems
    \/ PaginateReturn
    \/ SendWriteRequest
    \/ CreatePostRequest
    \/ DeletePostRequest
    \/ Deliver

SpecInterleaved == InitInterleaved /\ [][NextInterleaved]_vars

-----------------------------------------------------------------------------
(* Two posts of one author, updated field by field while time passes *)

\* PostUpdate.title and PostUpdate.content : a string, null, or not supplied.
TitleInputs == {"t1", NULL, UNSET}
ContentInputs == {"c1", NULL, UNSET}
\* PostUpdate.summary : a string, null, or not supplied.
SummaryInputs == {"s1", NULL, UNSET}

\* The updates of post 1 and of an id no post has.
UpdateRequests(cs) ==
    {[NoReq EXCEPT !.op = "update_post", !.variant = v, !.caller = c,
          !.pid = pid, !.title = d[1], !.content = d[2], !.summary = d[3],
          !.pub = d[4], !.slug = d[5]] :
        v \in Variants, c \in cs, pid \in {1, MaxPostIds},
        d \in TitleInputs \X ContentInputs \X SummaryInputs \X PubInputs
                \X SlugInputs}

InitUpdate ==
    /\ users = {u \in SeedUsers : u.id = 2}
    /\ posts = {NewPost(1, "a", FF, CHOOSE u \in SeedUsers : u.id = 2, 0),
                NewPost(2, "b", TT, CHOOSE u \in SeedUsers : u.id = 2, 0)}
    /\ nextPostId = MaxPostIds
    /\ nextUserId = MaxUserIds + 1
    /\ now = 0
    /\ req = NoReq
    /\ resp = NoResp
    /\ tasks = <<>>
    /\ sessions = <<>>
    /\ cache = NoCache
    /\ heap = NoHeap

SendUpdateRequest == Send(UpdateRequests({u.id : u \in ActiveUsers}))

NextUpdate ==
    \/ SendUpdateRequest
    \/ UpdatePostRequest
    \/ Deliver
    \/ Tick

SpecUpdate == InitUpdate /\ [][NextUpdate]_vars

-----------------------------------------------------------------------------
(* SoftDeletableModel: entities that are deleted and restored while time
   passes *)

MaxEntities == 2
EntityIds == 1..MaxEntities

\* An entity as its row is stored: is_deleted has the default False,
\* deleted_at and updated_at are empty.
NewEntity == [is_deleted |-> FF, deleted_at |-> NoTime, updated_at |-> NoTime]

\* SoftDeletableModel.delete
delete(self, t) ==
    [self EXCEPT !.updated_at = t, !.deleted_at = t, !.is_deleted = TT]

\* SoftDeletableModel.restore
restore(self, t) ==
    [self EXCEPT !.updated_at = t, !.deleted_at = NoTime, !.is_deleted = FF]

\* SoftDeletableModel.is_active_deleted
is_active_deleted(self) ==
    Truthy(self.is_deleted) \/ self.deleted_at # NoTime

\* The method returns None.
MethodReturn(id, entity) ==
    /\ heap' = [heap EXCEPT ![id] = entity]
    /\ resp' = [NoResp EXCEPT !.status = RETURNED]
    /\ UNCHANGED <<users, posts, nextPostId, nextUserId, now, req,
                   tasks, sessions, cache>>

DeleteCall ==
    Pending("delete") /\ MethodReturn(req.pid, delete(heap[req.pid], now))
RestoreCall ==
    Pending("restore") /\ MethodReturn(req.pid, restore(heap[req.pid], now))

SoftDeleteCalls ==
    {[NoReq EXCEPT !.op = o, !.pid = id] :
        o \in {"delete", "restore"}, id \in EntityIds}

InitSoftDelete ==
    /\ users = {}
    /\ posts = {}
    /\ nextPostId = 1
    /\ nextUserId = 1
    /\ now = 0
    /\ req = NoReq
    /\ resp = NoResp
    /\ tasks = <<>>
    /\ sessions = <<>>
    /\ cache = NoCache
    /\ heap = [id \in EntityIds |-> NewEntity]

SendSoftDeleteCall == Send(SoftDeleteCalls)

NextSoftDelete ==
    \/ SendSoftDeleteCall
    \/ DeleteCall
    \/ RestoreCall
    \/ Deliver
    \/ Tick

SpecSoftDelete == InitSoftDelete /\ [][NextSoftDelete]_vars

-----------------------------------------------------------------------------
(* TaskNotFoundError: objects and the dictionaries they refer to *)

MaxErrors == 3
TaskNames == {"task-1", "task-2"}

\* A dictionary is what it holds under "task_id", NoKey when it has no such
\* entry.  Dictionaries are objects: dicts[a] is the one at address a, and
\* an error holds the address of its details.
NoKey == "no key"
DefaultDetails == 1

\* The objects when the module has been imported: the {} of the signature
\* `details: dict[str, Any] | None = {}` was evaluated once, with the def.
Imported == [dicts |-> <<NoKey>>, errors |-> <<>>]

\* The details argument of a call: omitted, the parameter is bound to the
\* default object; given, to a dictionary the caller has just made.
Bound(h, given) ==
    IF given THEN [h EXCEPT !.dicts = Append(@, NoKey)] ELSE h
DetailsArg(h, given) == IF given THEN Len(h.dicts) + 1 ELSE DefaultDetails

\* details.update({"task_id": task_id})
update(h, d, task_id) ==
    [dicts |-> [h.dicts EXCEPT ![d] = task_id], at |-> d]

\* TaskNotFoundError.__init__, then BaseAppError.__init__: self.details =
\* details.
TaskNotFoundError(h, task_id, given) ==
    LET b == Bound(h, given)
        u == update(b, DetailsArg(h, given), task_id)
    IN  [dicts |-> u.dicts,
         errors |-> Append(h.errors, [task_id |-> task_id, details |-> u.at])]

ConstructCall ==
    /\ Pending("TaskNotFoundError")
    /\ heap' = TaskNotFoundError(heap, req.task_id, req.details = TT)
    /\ resp' = [NoResp EXCEPT !.status = RETURNED]
    /\ UNCHANGED <<users, posts, nextPostId, nextUserId, now, req,
                   tasks, sessions, cache>>

ConstructCalls ==
    {[NoReq EXCEPT !.op = "TaskNotFoundError", !.task_id = t, !.details = g] :
        t \in TaskNames, g \in Bools}

InitErrors ==
    /\ users = {}
    /\ posts = {}
    /\ nextPostId = 1
    /\ nextUserId = 1
    /\ now = 0
    /\ req = NoReq
    /\ resp = NoResp
    /\ tasks = <<>>
    /\ sessions = <<>>
    /\ cache = NoCache
    /\ heap = Imported

SendConstructCall ==
    /\ Len(heap.errors) < MaxErrors
    /\ Send(ConstructCalls)

NextErrors ==
    \/ SendConstructCall
    \/ ConstructCall
    \/ Deliver

SpecErrors == InitErrors /\ [][NextErrors]_vars

-----------------------------------------------------------------------------
(* Properties of the post handlers *)

\* What the request in flight is about, read from the tables as they are
\* before the handler runs.
Target == PostById(posts, req.pid)
TargetPost == CHOOSE p \in Target : TRUE
CallerMayMutate ==
    TargetPost.author_id = Caller.id \/ Caller.is_superuser = TRUE
CallerMaySee ==
    TargetPost.is_published = TT \/ CallerMayMutate
Handled(op) == req.op = op /\ resp.status = NULL /\ resp'.status # NULL
ConflictStatuses == {HTTP_409, HTTP_400}

SlugsUnique == \A p, q \in posts : p.id # q.id => p.slug # q.slug

C1_Step ==
    /\ SlugsUnique'
    /\ (Handled("create_post") /\ (\E p \in posts : p.slug = req.slug))
         => (resp'.status \in ConflictStatuses /\ posts' = posts)
    /\ (Handled("update_post") /\ Target # {} /\ CallerMayMutate
            /\ (\E q \in posts : q.id # req.pid /\ q.slug = req.slug))
         => (resp'.status \in ConflictStatuses /\ posts' = posts)
    /\ (Handled("update_post") /\ Target # {} /\ CallerMayMutate
            /\ req.slug = TargetPost.slug)
         => (resp'.status = HTTP_200 /\ \E p \in posts' :
                p.id = req.pid /\ p.slug = req.slug)

SlugAcceptable ==
    /\ req.slug # NULL
    /\ ~ \E q \in posts : q.id # req.pid /\ q.slug = req.slug

C3_Step ==
    /\ (Handled("update_post") /\ Target # {}) =>
          /\ (resp'.status = HTTP_403) <=> ~ CallerMayMutate
          /\ ~ CallerMayMutate => posts' = posts
          /\ (CallerMayMutate /\ SlugAcceptable) =>
                (resp'.status = HTTP_200 /\ \E p \in posts' : p.id = req.pid)
    /\ (Handled("delete_post") /\ Target # {}) =>
          /\ (resp'.status = HTTP_403) <=> ~ CallerMayMutate
          /\ ~ CallerMayMutate => posts' = posts
          /\ CallerMayMutate =>
                (resp'.status = HTTP_200 /\ posts' = posts \ Target)

PublishedAtMatchesFlag ==
    \A p \in posts : (p.published_at # NoTime) <=> (p.is_published = TT)

Created == posts' \ posts
Updated == CHOOSE p \in posts' : p.id = req.pid

C4_Step ==
    /\ PublishedAtMatchesFlag'
    /\ (Handled("create_post") /\ resp'.status = HTTP_200) =>
          \E p \in Created :
              /\ Created = {p}
              /\ p.is_published = req.pub
              /\ p.published_at = IF req.pub = TT THEN now ELSE NoTime
    /\ (Handled("update_post") /\ resp'.status = HTTP_200) =>
          /\ req.pub # UNSET =>
                /\ Updated.is_published = req.pub
                /\ (req.pub = TT /\ TargetPost.published_at = NoTime)
                      => Updated.published_at = now
                /\ req.pub # TT => Updated.published_at = NoTime
          /\ req.pub = UNSET =>
                /\ Updated.is_published = TargetPost.is_published
                /\ Updated.published_at = TargetPost.published_at
          /\ (TargetPost.is_published = TT /\ Updated.is_published = TT)
                => Updated.published_at = TargetPost.published_at

\* C4: published_at follows the publish flag.  A post created published is
\* stamped with the time of creation; an update that supplies is_published
\* stamps published_at with the current time when the post ends up published
\* and had no stamp, and clears it when the post ends up unpublished; a stored
\* post has published_at exactly when is_published is true; and an update
\* that leaves a published post published keeps its published_at.
C4_PublishedAtFollowsFlag == [][C4_Step]_vars

\* C4 witness: a post published earlier was updated with is_published true
\* at a later time and kept its earlier published_at.
C4_Witness ==
    /\ req.op = "update_post"
    /\ req.pub = TT
    /\ resp.status = HTTP_200
    /\ \E p \in posts :
          p.id = req.pid /\ p.published_at # NoTime /\ p.published_at < now

-----------------------------------------------------------------------------
(* Properties of pagination and of the listings *)

RequestFilters == [fpub |-> req.fpub, fauthor |-> req.fauthor]
ValidPaging == req.page >= 1 /\ req.size >= 1 /\ req.size <= 100
Meta == resp.meta[1]
Items == {resp.items[i] : i \in 1..Len(resp.items)}

\* C5: for every page >= 1 and size in 1..100, the result of paginating
\* holds at most size items, all of them records matching the filters, and
\* its metadata reports total = the number of matching records, pages = the
\* least n with n * size >= total (0 when total is 0), has_next = (page <
\* pages) and has_prev = (page > 1).
C5_PaginationMetadata ==
    (req.op = "paginate" /\ Responded /\ ValidPaging) =>
        /\ resp.status = HTTP_200
        /\ Len(resp.items) <= req.size
        /\ Items \subseteq Matching(posts, RequestFilters)
        /\ Meta.total = Cardinality(Matching(posts, RequestFilters))
        /\ Meta.page = req.page /\ Meta.size = req.size
        /\ Meta.pages >= 0
        /\ Meta.pages * req.size >= Meta.total
        /\ Meta.total > 0 => (Meta.pages - 1) * req.size < Meta.total
        /\ Meta.total = 0 => Meta.pages = 0
        /\ Meta.has_next = (req.page < Meta.pages)
        /\ Meta.has_prev = (req.page > 1)

\* C5 witness: a middle page of one item out of three matching records,
\* with both a next and a previous page.
C5_Witness ==
    /\ req.op = "paginate"
    /\ resp.status = HTTP_200
    /\ Len(resp.items) = req.size
    /\ Meta.total = 3 /\ Meta.pages = 3
    /\ Meta.has_next /\ Meta.has_prev

\* C6: a pagination call with page < 1, size < 1 or size > 100 is answered
\* 422 with no result, and no query (neither the count nor the items query)
\* has run for it.
C6_InvalidPagingRejectedBeforeQuery ==
    (req.op = "paginate" /\ Responded /\ ~ ValidPaging) =>
        /\ resp.status = HTTP_422
        /\ resp.nq = 0
        /\ resp.items = <<>>
        /\ resp.meta = <<>>

\* C6 witness: a call with size 101 over a non-empty table was answered 422.
C6_Witness ==
    /\ req.op = "paginate"
    /\ req.page >= 1
    /\ req.size = 101
    /\ posts # {}
    /\ resp.status = HTTP_422

PageLength(total, page, size) ==
    IF total - (page - 1) * size <= 0 THEN 0
    ELSE Min(size, total - (page - 1) * size)

\* C7: the general post listing requested by a non-superuser succeeds and
\* returns only posts that are published or authored by the caller, with the
\* reported total equal to the number of items returned; requested by a
\* superuser it succeeds and returns the whole page of the query.
C7_ListingShowsVisiblePosts ==
    (req.op = "get_posts" /\ Responded) =>
        /\ resp.status = HTTP_200
        /\ IF Caller.is_superuser
           THEN Len(resp.items) = PageLength(Meta.total, req.page, req.size)
           ELSE /\ \A p \in Items :
                      p.is_published = TT \/ p.author_id = req.caller
                /\ Meta.total = Len(resp.items)

\* C8: every post returned by the "my posts" listing is authored by the
\* caller, and has the requested publish state when is_published is given.
C8_MyPostsAreTheCallers ==
    (req.op = "get_my_posts" /\ Responded) =>
        \A p \in Items :
            /\ p.author_id = req.caller
            /\ req.fpub # NULL => p.is_published = req.fpub

-----------------------------------------------------------------------------
(* Properties of the account handlers *)

UsersUnique ==
    \A u, w \in users :
        u.id # w.id => (u.email # w.email /\ u.username # w.username)

HeldByAnother ==
    \/ \E u \in users : u.id # req.caller /\ u.email = req.email
    \/ \E u \in users : u.id # req.caller /\ u.username = req.username

C9_Step ==
    /\ UsersUnique'
    /\ (Handled("register") /\
          \E u \in users : u.email = req.email \/ u.username = req.username)
          => (resp'.status = HTTP_400 /\ users' = users)
    /\ (Handled("update_profile") /\ HeldByAnother)
          => (resp'.status = HTTP_400 /\ users' = users)

\* C9: with register and update-profile requests running one at a time, no
\* two stored users ever share an email or a username; register answers 400
\* and stores nothing when a stored user has the email or the username,
\* whatever the other field is; update-profile answers 400 and leaves every
\* record unchanged when another account holds the email or the username.
C9_EmailAndUsernameStayUnique == [][C9_Step]_vars

\* C9 witness: a registration with a fresh email was refused because its
\* username was taken.
C9_Witness ==
    /\ req.op = "register"
    /\ resp.status = HTTP_400
    /\ ~ \E u \in users : u.email = req.email
    /\ \E u \in users : u.username = req.username

GoodCredentials ==
    \E u \in users :
        /\ u.email = req.email
        /\ u.is_active = TT
        /\ u.hashed_password = get_password_hash(req.password)

\* C10: authenticate_user returns the user exactly when an active user with
\* the given email exists and the password verifies against its stored hash;
\* login with such credentials succeeds with a token of type bearer, and any
\* other login is answered 401 with no token.
C10_AuthenticateIffActiveAndVerified ==
    /\ (req.op = "authenticate" /\ Responded) =>
          /\ (resp.rows # {}) <=> GoodCredentials
          /\ \A u \in resp.rows : u \in users /\ u.email = req.email
    /\ (req.op = "login" /\ Responded) =>
          IF GoodCredentials
          THEN /\ resp.status = HTTP_200
               /\ Len(resp.token) = 1
               /\ resp.token[1].token_type = "bearer"
          ELSE resp.status = HTTP_401 /\ resp.token = <<>>

-----------------------------------------------------------------------------
(* Properties of the tokens *)

Presented == req.token[1]
Life(d) == IF d = NoTime THEN ACCESS_TOKEN_EXPIRE_MINUTES ELSE d
VerifyDone == req.op = "verify_token" /\ Responded

\* C11: verify_token never raises; on a token that create_access_token made
\* for (user id, username), verified before its exp, it returns exactly that
\* user id and username; on a token whose signature does not fit its claims,
\* on a token verified after its exp, and on a token without sub or without
\* username, it returns nothing.
C11_VerifyTokenRoundTrip ==
    VerifyDone =>
        /\ resp.status = RETURNED
        /\ \A i \in TokenIds, n \in Usernames, d \in Deltas, t0 \in 0..now :
              (/\ Presented = create_access_token(
                                 [sub |-> str_id(i), username |-> n], d, t0)
               /\ now < t0 + Life(d))
              => resp.rows = {[user_id |-> i, username |-> n]}
        /\ Presented.sig # Sign(Presented.claims, SECRET_KEY)
              => resp.rows = {}
        /\ now > Presented.claims.exp => resp.rows = {}
        /\ (Presented.claims.sub = NoSub \/ Presented.claims.username = NULL)
              => resp.rows = {}

\* A token made by create_access_token is verified after its exp and
\* nothing is returned.
C11_Witness ==
    /\ VerifyDone
    /\ Presented \in IssuedTokens(now)
    /\ now > Presented.claims.exp
    /\ resp.rows = {}

-----------------------------------------------------------------------------
(* Properties of the gates *)

\* What the header of the request in flight stands for, read before the
\* handler runs.
Verified == verify_token(req.token[1], now).value
Bearer == CHOOSE u \in users : u.id = Verified[1].user_id
BearerExists == \E u \in users : u.id = Verified[1].user_id

\* C12: GET /auth/me without an Authorization header is refused with 403
\* and no profile; with a token that fails verification, or whose user does
\* not exist or is not active, it is refused with 401 and no profile; with a
\* verified token of an active user it returns that user's profile and no
\* other.
C12_Step ==
    Handled("get_me") =>
        IF req.token = <<>>
        THEN resp'.status = HTTP_403 /\ resp'.rows = {}
        ELSE IF Verified = <<>> \/ ~ BearerExists
        THEN resp'.status = HTTP_401 /\ resp'.rows = {}
        ELSE IF Bearer.is_active # TT
        THEN resp'.status = HTTP_401 /\ resp'.rows = {}
        ELSE resp'.status = HTTP_200 /\ resp'.rows = {Bearer}
C12_CurrentUserIsTheTokenHolder == [][C12_Step]_vars

\* GET /auth/me has returned the profile of a token's user while another
\* account is inactive.
C12_Witness ==
    /\ req.op = "get_me"
    /\ resp.status = HTTP_200
    /\ \E u \in resp.rows : str_id(u.id) = req.token[1].claims.sub
    /\ \E u \in users : u.is_active = FF

\* C13: a request with a verified token of a user whose is_active is false
\* is refused with 400 (Inactive user).
C13_Step ==
    (/\ Handled("get_me")
     /\ req.token # <<>>
     /\ Verified # <<>>
     /\ BearerExists
     /\ Bearer.is_active = FF)
    => resp'.status = HTTP_400
C13_InactiveUserGets400 == [][C13_Step]_vars

\* C14: behind PermissionChecker, a caller who passes the active-user gate
\* is admitted, when the list of required permissions is not empty, if and
\* only if the caller is a superuser, and refused with 403 otherwise; when
\* the list is empty the caller is admitted.
C14_Step ==
    (/\ Handled("require")
     /\ req.token # <<>>
     /\ Verified # <<>>
     /\ BearerExists
     /\ Bearer.is_active = TT)
    => IF req.required # <<>>
       THEN /\ resp'.status = HTTP_200 <=> Bearer.is_superuser
            /\ resp'.status \in {HTTP_200, HTTP_403}
       ELSE resp'.status = HTTP_200 /\ resp'.rows = {Bearer}
C14_PermissionCheckerAdmitsSuperusers == [][C14_Step]_vars

\* A caller who is no superuser has been refused behind a checker that
\* requires the permission "user".
C14_Witness ==
    /\ req.op = "require"
    /\ req.required = <<"user">>
    /\ req.token # <<>>
    /\ resp.status = HTTP_403
    /\ \E u \in users : /\ str_id(u.id) = req.token[1].claims.sub
                        /\ u.is_active = TT
                        /\ ~ u.is_superuser

-----------------------------------------------------------------------------
(* Properties of the session scope *)

SessionLog(i) == sessions[tasks[i].sid].log
Performed(i, op) == \E k \in 1..Len(SessionLog(i)) : SessionLog(i)[k] = op
DbFailure(i) ==
    tasks[i].body = SQLAlchemyError \/ tasks[i].commit = SQLAlchemyError

\* C15: each use of get_db is handed a session of its own, on which nothing
\* has been performed; when the use is over: after a body that finished
\* normally the session was committed, after a database-level failure it
\* was rolled back and the failure propagates, and in every outcome the
\* last operation on the session is close.
C15_SessionScope ==
    /\ \A i, j \in TaskIds :
          (i # j /\ tasks[i].pc # "idle" /\ tasks[j].pc # "idle")
          => tasks[i].sid # tasks[j].sid
    /\ \A i \in TaskIds :
          /\ tasks[i].pc = "yield" => SessionLog(i) = <<>>
          /\ tasks[i].pc = "done" =>
                /\ tasks[i].body = OK => Performed(i, "commit")
                /\ DbFailure(i) =>
                      Performed(i, "rollback")
                          /\ tasks[i].raised = SQLAlchemyError
                /\ SessionLog(i) # <<>>
                /\ SessionLog(i)[Len(SessionLog(i))] = "close"

\* A use of get_db whose commit raised a database-level failure is over
\* while another use, with its own session, is still running.
C15_Witness ==
    \E i, j \in TaskIds :
        /\ tasks[i].pc = "done"
        /\ tasks[i].commit = SQLAlchemyError
        /\ Performed(i, "rollback")
        /\ tasks[j].pc = "yield"

-----------------------------------------------------------------------------
(* Properties of the cache keys *)

BuildKeyDone == req.op = "build_key" /\ Responded

\* The same keyword arguments in another order.
Reorderings(kw) ==
    {kw2 \in [1..Len(kw) -> {kw[i] : i \in 1..Len(kw)}] :
        \A i, j \in 1..Len(kw) : i # j => kw2[i] # kw2[j]}

\* The name=value pieces in ascending order of name, each followed by what
\* comes after it in the key.
RECURSIVE NamedTail(_, _)
NamedTail(kw, r) ==
    IF r > Len(NameSeq) THEN <<>>
    ELSE LET here == {i \in 1..Len(kw) : kw[i][1] = NameSeq[r]} IN
         IF here = {} THEN NamedTail(kw, r + 1)
         ELSE LET i == CHOOSE x \in here : TRUE IN
              <<":", kw[i][1], "=", kw[i][2].text>> \o NamedTail(kw, r + 1)

RECURSIVE PositionalTail(_)
PositionalTail(args) ==
    IF args = <<>> THEN <<>>
    ELSE <<":", args[1].text>> \o PositionalTail(Tail(args))

\* C16: build_key gives, for the same prefix, positional arguments and
\* keyword arguments, the same key whatever the order of the keyword
\* arguments; the key is the prefix, the positional parts in order, then the
\* name=value parts in ascending order of name, joined with ':'.
C16_BuildKeyIgnoresKeywordOrder ==
    BuildKeyDone =>
        /\ \A kw2 \in Reorderings(req.kwargs) :
              build_key(req.prefix, req.args, kw2) = resp.key
        /\ resp.key = <<req.prefix>> \o PositionalTail(req.args)
                         \o NamedTail(req.kwargs, 1)

\* A key has been built from two positional arguments and three keyword
\* arguments given in descending order of name.
C16_Witness ==
    /\ BuildKeyDone
    /\ Len(req.args) = 2
    /\ Len(req.kwargs) = 3
    /\ \A i \in 1..2 :
          NameRank(req.kwargs[i][1]) > NameRank(req.kwargs[i + 1][1])
    /\ Len(resp.key) = 17

-----------------------------------------------------------------------------
(* Properties of the cache operations *)

CacheOps ==
    {"cache.get", "cache.set", "cache.delete", "cache.exists",
     "cache.expire", "cache.ttl", "cache.clear_pattern", "cache.increment",
     "cache.decrement", "cache.get_keys"}
CacheDone == req.op \in CacheOps /\ Responded
Returned(op, v) == req.op = op => resp.value = v

\* C17: a cache operation always returns.  get returns None for a key that
\* is not stored and when the server does not answer; when the server does
\* not answer, set, delete, exists and expire return False, ttl returns -1,
\* clear_pattern returns 0, increment and decrement return None and get_keys
\* returns the empty list; other failures of the server's command give the
\* same defaults (set with a timeout that is not positive, get of bytes
\* that are no text, increment of a value that is no integer).
C17_CacheOperationsNeverRaise ==
    CacheDone =>
        /\ resp.status = RETURNED
        /\ (req.op = "cache.get" /\ ~ Present(req.ckey)) => resp.value = None
        /\ ~ cache.up =>
              /\ Returned("cache.get", None)
              /\ Returned("cache.set", False)
              /\ Returned("cache.delete", False)
              /\ Returned("cache.exists", False)
              /\ Returned("cache.expire", False)
              /\ Returned("cache.ttl", PyInt(-1))
              /\ Returned("cache.clear_pattern", PyInt(0))
              /\ Returned("cache.increment", None)
              /\ Returned("cache.decrement", None)
              /\ Returned("cache.get_keys", PyList({}))
        /\ (req.op = "cache.set" /\ req.timeout = 0) => resp.value = False
        /\ (/\ req.op \in {"cache.increment", "cache.decrement"}
            /\ Present(req.ckey) /\ ~ IsIntText(req.ckey))
           => resp.value = None
        /\ (/\ req.op = "cache.get" /\ Present(req.ckey)
            /\ cache.store[req.ckey][1].text[1] = "pickle")
           => resp.value = None

\* get has returned None for a key that is stored, the server not
\* answering.
C17_Witness ==
    /\ CacheDone
    /\ req.op = "cache.get"
    /\ ~ cache.up
    /\ Present(req.ckey)
    /\ resp.value = None

-----------------------------------------------------------------------------
(* Properties of the decorators *)

OriginalMessage(detail) == IF IsStr(detail) THEN detail[2] ELSE detail[2].message

\* C18: a handler under handle_response over handle_exceptions that raises
\* an HTTPException with status s, its detail a text or a structured body,
\* ends by raising an HTTPException with status s whose detail is the error
\* envelope carrying the original message.
C18_HttpErrorsKeepStatusAndMessage ==
    (/\ req.op = "wrapped"
     /\ Responded
     /\ req.wrap = "stacked"
     /\ req.raises[1].raised = "HTTPException")
    => /\ resp.raised = "HTTPException"
       /\ resp.status = req.raises[1].status
       /\ resp.detail # <<>>
       /\ resp.detail[1] = "dict"
       /\ resp.detail[2].message = OriginalMessage(req.raises[1].detail)

\* C19: the body of a 500 built by handle_response, by handle_exceptions
\* or by a process-wide handler holds no stack trace.
C19_NoStackTraceIn500 ==
    (/\ req.op \in {"wrapped", "general_exception_handler",
                    "uncaught_exception_handler"}
     /\ Responded
     /\ resp.raised = "HTTPException"
     /\ resp.status = HTTP_500)
    => "traceback" \notin resp.detail[2].details

-----------------------------------------------------------------------------
(* Properties of concurrent create_post *)

StoredWith(slug) == {p \in posts : p.slug = slug}

\* C20: when two concurrent create_post requests with the same slug have
\* both finished, whatever the interleaving of their database calls, at
\* most one post with that slug is stored.
C20_ConcurrentCreatesStoreOneSlug ==
    \A i, j \in TaskIds :
        (/\ i # j
         /\ tasks[i].pc = "done"
         /\ tasks[j].pc = "done"
         /\ tasks[i].slug = tasks[j].slug)
        => Cardinality(StoredWith(tasks[i].slug)) <= 1

\* Two requests with the same slug have both passed the pre-check and both
\* finished: one stored its post, the other was refused at the commit.
C20_Witness ==
    \E i, j \in TaskIds :
        /\ i # j
        /\ tasks[i].pc = "done" /\ tasks[j].pc = "done"
        /\ tasks[i].slug = tasks[j].slug
        /\ tasks[i].passed /\ tasks[j].passed
        /\ tasks[i].status = HTTP_200
        /\ tasks[j].status = HTTP_500
        /\ Cardinality(StoredWith(tasks[i].slug)) = 1

-----------------------------------------------------------------------------
(* Properties of update_post: what an update leaves alone *)

UpdateSucceeds ==
    /\ UpdatePostRequest
    /\ resp'.status = HTTP_200

\* The five fields of PostUpdate: supplied ones take the supplied value,
\* the others keep theirs.
SuppliedOrKept(old, new) ==
    /\ new.title = (IF req.title = UNSET THEN old.title ELSE req.title)
    /\ new.content = (IF req.content = UNSET THEN old.content ELSE req.content)
    /\ new.summary = (IF req.summary = UNSET THEN old.summary ELSE req.summary)
    /\ new.slug = (IF req.slug = UNSET THEN old.slug ELSE req.slug)
    /\ new.is_published = (IF req.pub = UNSET THEN old.is_published
                           ELSE req.pub)

\* published_at follows the publish rule: untouched unless is_published was
\* supplied, stamped once on publishing, cleared on unpublishing.
PublishedAtAsRuled(old, new) ==
    IF req.pub = UNSET THEN new.published_at = old.published_at
    ELSE IF Truthy(new.is_published)
         THEN new.published_at =
                  (IF old.published_at = NoTime THEN now ELSE old.published_at)
         ELSE new.published_at = NoTime

\* id, author_id and created_at stay, and so does every other post.
IdentityKept(old, new) ==
    /\ new.id = old.id
    /\ new.author_id = old.author_id
    /\ new.created_at = old.created_at
    /\ posts' \ {new} = posts \ {old}

\* C21 as stated: a successful update_post changes only the supplied fields
\* among title, content, summary, is_published and slug, plus published_at as
\* the publish rule requires; every other field of the post keeps its value.
C21_Step ==
    UpdateSucceeds =>
        /\ SuppliedOrKept(TargetPost, Updated)
        /\ PublishedAtAsRuled(TargetPost, Updated)
        /\ IdentityKept(TargetPost, Updated)
        /\ Updated.updated_at = TargetPost.updated_at
C21_AmendedStep ==
    /\ UpdateSucceeds =>
        /\ SuppliedOrKept(TargetPost, Updated)
        /\ PublishedAtAsRuled(TargetPost, Updated)
        /\ IdentityKept(TargetPost, Updated)
        /\ Updated.updated_at =
              (IF [Updated EXCEPT !.updated_at = TargetPost.updated_at] = TargetPost
               THEN TargetPost.updated_at ELSE now)
    /\ UpdatePostRequest /\ resp'.status # HTTP_200 => posts' = posts
-----------------------------------------------------------------------------
(* Properties of delete_post: what is removed and what follows *)

\* The ids given out so far that no stored post has: the deleted ones.
DeletedIds == {id \in PostIds : id < nextPostId /\ PostById(posts, id) = {}}

C22_Step ==
    /\ (Handled("delete_post") /\ Target = {}) =>
          (resp'.status = HTTP_404 /\ posts' = posts)
    /\ (Handled("delete_post") /\ Target # {} /\ CallerMayMutate) =>
          /\ resp'.status = HTTP_200
          /\ posts' = posts \ {TargetPost}
          /\ Cardinality(posts') = Cardinality(posts) - 1
          /\ PostById(posts', req.pid) = {}
          /\ ~ SlugExists(posts', TargetPost.slug)
    /\ DeletedIds \subseteq DeletedIds'
    /\ \A o \in {"get_post", "update_post", "delete_post"} :
          (Handled(o) /\ req.pid \in DeletedIds) =>
              (resp'.status = HTTP_404 /\ posts' = posts)
    /\ (Handled("create_post") /\ ~ SlugExists(posts, req.slug)) =>
          /\ resp'.status = HTTP_200
          /\ \E p \in posts' \ posts : p.slug = req.slug /\ p.id = nextPostId

-----------------------------------------------------------------------------
(* Properties of a database failure inside a decorated route *)

\* The operations performed on the session of task i.
ScopeLog(i) == {sessions'[tasks'[i].sid].log[k] :
                  k \in 1..Len(sessions'[tasks'[i].sid].log)}

\* The decorators ended with an error envelope: an HTTPException whose
\* detail is the dumped ErrorResponse.
RenderedAsEnvelope(o) == o.raised = "HTTPException" /\ ~ IsStr(o.detail)

\* C23: a database failure raised while the decorated handler runs (its
\* commit refused by the unique index) commits none of the request's
\* changes, is rendered by the decorators as an error envelope, and has the
\* session rolled back by the session scope before the scope is left.
C23_Step ==
    \A i \in TaskIds :
        /\ (tasks[i].pc = "handler_commit" /\ tasks'[i].pc # "handler_commit"
                /\ tasks'[i].failure = SQLAlchemyError)
              => (posts' = posts /\ RenderedAsEnvelope(tasks'[i].ended[1]))
        /\ (tasks[i].pc = "exit" /\ tasks'[i].pc = "done"
                /\ tasks'[i].failure = SQLAlchemyError)
              => "rollback" \in ScopeLog(i)
C23_DbFailureRolledBackAndRendered == [][C23_Step]_vars

-----------------------------------------------------------------------------
(* Properties of the soft-delete mixin *)

\* The two fields of the mixin.
DeletionState(self) == <<self.is_deleted, self.deleted_at>>

\* C24: after any sequence of delete and restore, is_deleted is true exactly
\* when deleted_at is present; delete makes is_active_deleted true, restore
\* makes it false and gives is_deleted and deleted_at their initial values;
\* a delete of a deleted entity and a restore of an entity that is not
\* deleted leave the two fields as they are.
C24_Step ==
    /\ \A id \in EntityIds :
          Truthy(heap'[id].is_deleted) <=> (heap'[id].deleted_at # NoTime)
    /\ Handled("delete") =>
          /\ is_active_deleted(heap'[req.pid])
          /\ Truthy(heap[req.pid].is_deleted) =>
                DeletionState(heap'[req.pid]) = DeletionState(heap[req.pid])
    /\ Handled("restore") =>
          /\ ~ is_active_deleted(heap'[req.pid])
          /\ DeletionState(heap'[req.pid]) = DeletionState(NewEntity)
          /\ ~ Truthy(heap[req.pid].is_deleted) =>
                DeletionState(heap'[req.pid]) = DeletionState(heap[req.pid])
C24_SoftDeleteAlgebra == [][C24_Step]_vars

-----------------------------------------------------------------------------
(* Properties of the search arguments of get_paginated_results *)

\* The results the call in flight may give, and those of the same call with
\* no search at all.
ResultsOfCall(search_term, search_fields) ==
    get_paginated_results(posts, req.page, req.size,
        [fpub |-> req.fpub, fauthor |-> req.fauthor],
        req.sort_by, req.sort_order, search_term, search_fields)
Answer == [status |-> resp.status, items |-> resp.items, meta |-> resp.meta,
           nq |-> resp.nq]

-----------------------------------------------------------------------------
(* Properties of the superuser flag *)

\* C26: no request of the API (register, login, profile update, post create,
\* update, delete) changes the is_superuser flag of a stored user, and a user
\* that register stores is no superuser.
C26_Step ==
    /\ \A u \in users, w \in users' :
          u.id = w.id => w.is_superuser = u.is_superuser
    /\ \A w \in users' :
          (\A u \in users : u.id # w.id) => w.is_superuser = FALSE
C26_NoRequestGrantsSuperuser == [][C26_Step]_vars

\* C26 witness: a registered user sent a profile update whose body asks for
\* is_superuser, the update succeeded, and the user is no superuser.
C26_Witness ==
    /\ req.op = "update_profile" /\ resp.status = HTTP_200
    /\ req.superuser = TT
    /\ req.caller >= 2
    /\ \E u \in users : u.id = req.caller /\ u.is_superuser = FALSE

-----------------------------------------------------------------------------
(* Properties of reading a listing page by page *)

\* The sorted matching set as the client's calls could have seen it.
ScanOrders ==
    OrderBy(Matching(posts, [fpub |-> tasks[1].fpub, fauthor |-> NoId]),
            tasks[1].sort_by, tasks[1].sort_order)

\* C27: with the stored data unchanged, the pages 1..pages of one size,
\* filter and sort are the consecutive slices of one sorted sequence of the
\* matching records, page p holding positions (p-1)*size+1 .. p*size: every
\* matching record is on exactly one page, also when records tie on the
\* sort column.
C27_PagesPartitionTheMatches ==
    tasks[1].pc = "done" =>
        \E ord \in ScanOrders :
            \A p \in 1..Len(tasks[1].seen) :
                tasks[1].seen[p] = get_items(ord, p, tasks[1].size)

-----------------------------------------------------------------------------
(* Properties of paginate under concurrent writes *)

Max(a, b) == IF a > b THEN a ELSE b

\* C28: every result of Paginator.paginate has
\* min(size, max(0, total - (page-1)*size)) items for the total it returns,
\* also when other requests commit creations or deletions between its count
\* query and its items query.
C28_ItemCountAgreesWithTotal ==
    tasks[1].pc = "done" =>
        Len(tasks[1].items) =
            Min(tasks[1].size,
                Max(0, tasks[1].total - (tasks[1].page - 1) * tasks[1].size))

-----------------------------------------------------------------------------
(* Properties of last_login *)

\* The stored user the credentials of the request in flight belong to: an
\* active user with the email whose password verifies.
Authenticates(u) ==
    /\ u.email = req.email
    /\ Truthy(u.is_active)
    /\ verify_password(req.password, u.hashed_password)

\* C29: a user's last_login changes only in a step of authenticate_user
\* (called directly or by login) with that user's email and password while
\* the user is active, and becomes the current time in the stored row that
\* is returned; an authentication that fails (unknown email, inactive user,
\* wrong password) changes no stored row and returns nothing; and
\* authenticate_user returns, with nothing on a database error, and never
\* raises.
C29_Step ==
    /\ \A u \in users, w \in users' :
          (u.id = w.id /\ w.last_login # u.last_login) =>
              /\ Handled("authenticate") \/ Handled("login")
              /\ Authenticates(u)
              /\ w.last_login = now
              /\ resp'.rows = {w}
    /\ (Handled("authenticate") \/ Handled("login")) =>
          ((~ \E u \in users : Authenticates(u)) =>
              (users' = users /\ resp'.rows = {}))
    /\ Handled("authenticate") =>
          /\ resp'.status = RETURNED
          /\ req.fault # NULL => (users' = users /\ resp'.rows = {})
C29_LastLoginOnlyByAuthentication == [][C29_Step]_vars

\* C29 witness: an authentication succeeded after time had passed and the
\* stored user carries the time of the call.
C29_Witness ==
    /\ req.op = "authenticate" /\ Responded
    /\ now > 0
    /\ \E u \in users : Authenticates(u) /\ u.last_login = now
                          /\ resp.rows = {u}

-----------------------------------------------------------------------------
(* Properties of TaskNotFoundError *)

\* What the details of the k-th error constructed hold under "task_id".
DetailsOf(h, k) == h.dicts[h.errors[k].details]

\* C30: every TaskNotFoundError holds in its details its own task_id, and
\* the construction of a later one, with details omitted or given, leaves
\* the details of the earlier ones as they were: no dictionary an error
\* refers to is changed by constructing another error.
C30_Step ==
    /\ \A k \in 1..Len(heap'.errors) :
          DetailsOf(heap', k) = heap'.errors[k].task_id
    /\ Handled("TaskNotFoundError") =>
          \A k \in 1..Len(heap.errors) :
              DetailsOf(heap', k) = DetailsOf(heap, k)
C30_ErrorsOwnTheirDetails == [][C30_Step]_vars

====
